---- MODULE Spec2Model ----
(***************************************************************************)
(* The mortgage engine of the real-estate backend (routes/mortgageRoutes.js *)
(* behind middleware/validationMiddleware.js), as a request/response state  *)
(* machine.  JavaScript Numbers are binary floating-point numbers: they are *)
(* modelled by a floating-point format of the same construction as IEEE 754 *)
(* binary64 (round to nearest, ties to even, gradual underflow, overflow to *)
(* Infinity, NaN), with Precision significand bits instead of 53.           *)
(***************************************************************************)
EXTENDS Integers, Sequences, FiniteSets, TLC

(***************************************************************************)
(* Bounds of the model.                                                     *)
(***************************************************************************)
\* significand bits of a Number
Precision == 7
\* the smallest positive Number is 2^-FracBits
FracBits == 5
\* finite Numbers are below 2^(MaxExp - FracBits) in magnitude
MaxExp == 14
\* the valid loanTerm / term values clients send are 1..MaxTermYears
MaxTermYears == 3

\* the requests the concurrent machine has in flight at once
MaxInFlight == 2

\* An array's length is an unsigned integer of LengthBits bits (32 in
\* JavaScript): a push onto an array of MaxArrayLength elements throws a
\* RangeError.
LengthBits == 4

MaxArrayLength == (2 ^ LengthBits) - 1

(***************************************************************************)
(* Numbers.  A finite Number is n * 2^-FracBits for an integer n with at    *)
(* most Precision significant bits.                                         *)
(***************************************************************************)
Unit == 2 ^ FracBits

Fin(i) == [c |-> "fin", n |-> i]

PosInf == [c |-> "inf", n |-> 1]

NegInf == [c |-> "inf", n |-> -1]

NaN == [c |-> "nan", n |-> 0]

Zero == Fin(0)

Abs(i) == IF i < 0 THEN -i ELSE i

Sgn(i) == IF i < 0 THEN -1 ELSE 1

RECURSIVE BitLen(_)
BitLen(a) == IF a = 0 THEN 0 ELSE 1 + BitLen(a \div 2)

\* the number of low bits a quotient q0 loses to fit Precision bits
RoundShift(q0) == IF BitLen(q0) > Precision THEN BitLen(q0) - Precision ELSE 0

\* round half to even: quotient q with remainder r of a division by d
RoundUp(q, r, d) == (2 * r > d) \/ (2 * r = d /\ q % 2 = 1)

\* a / d rounded to the nearest integer, ties to even
RoundMantissa(a, d) == IF RoundUp(a \div d, a % d, d) THEN (a \div d) + 1 ELSE a \div d

\* m units with sign sgn, Infinity from 2 ^ MaxExp units on
RoundClamp(sgn, m) == IF m >= 2 ^ MaxExp THEN [c |-> "inf", n |-> sgn] ELSE Fin(sgn * m)

\* num/den units kept to multiples of 2 ^ g units
RoundAt(num, den, g) == RoundClamp(Sgn(num), RoundMantissa(Abs(num), den * (2 ^ g)) * (2 ^ g))

\* The Number nearest to num/den units (den > 0), ties to even; Infinity on
\* overflow.
RoundQ(num, den) == RoundAt(num, den, RoundShift(Abs(num) \div den))

\* A numeric literal (or a JSON number) with the integer value i
Fl(i) == RoundQ(i * Unit, 1)

\* A numeric literal (or a JSON number) with the decimal value num/den
FlQ(num, den) == RoundQ(num * Unit, den)

FNeg(x) == [x EXCEPT !.n = -x.n]

\* x + y
FAdd(x, y) ==
  IF x.c = "nan" \/ y.c = "nan" THEN NaN
  ELSE IF x.c = "inf" THEN (IF y.c = "inf" /\ y.n # x.n THEN NaN ELSE x)
  ELSE IF y.c = "inf" THEN y
  ELSE RoundQ(x.n + y.n, 1)

\* x - y
FSub(x, y) == FAdd(x, FNeg(y))

\* x * y
FMul(x, y) ==
  IF x.c = "nan" \/ y.c = "nan" THEN NaN
  ELSE IF x.c = "inf" \/ y.c = "inf"
    THEN (IF x = Zero \/ y = Zero THEN NaN
          ELSE [c |-> "inf", n |-> Sgn(x.n) * Sgn(y.n)])
  ELSE RoundQ(x.n * y.n, Unit)

\* x / y
FDiv(x, y) ==
  IF x.c = "nan" \/ y.c = "nan" THEN NaN
  ELSE IF x.c = "inf"
    THEN (IF y.c = "inf" THEN NaN ELSE [c |-> "inf", n |-> x.n * Sgn(y.n)])
  ELSE IF y.c = "inf" THEN Zero
  ELSE IF y = Zero
    THEN (IF x = Zero THEN NaN ELSE [c |-> "inf", n |-> Sgn(x.n)])
  ELSE RoundQ(Sgn(y.n) * x.n * Unit, Abs(y.n))

\* x < y (false when either is NaN)
FLt(x, y) ==
  /\ x.c # "nan"
  /\ y.c # "nan"
  /\ IF x.c = "inf" THEN x.n < 0 /\ y # x
     ELSE IF y.c = "inf" THEN y.n > 0
     ELSE x.n < y.n

\* x <= y (false when either is NaN)
FLe(x, y) == x.c # "nan" /\ y.c # "nan" /\ (x = y \/ FLt(x, y))

\* Math.max(x, y): NaN when either is NaN
FMax(x, y) ==
  IF x.c = "nan" \/ y.c = "nan" THEN NaN
  ELSE IF FLt(x, y) THEN y ELSE x

\* Math.min(x, y): NaN when either is NaN
FMin(x, y) ==
  IF x.c = "nan" \/ y.c = "nan" THEN NaN
  ELSE IF FLt(y, x) THEN y ELSE x

IsInteger(x) == x.c = "fin" /\ x.n % Unit = 0

\* The integer a Number with an integer value denotes
ToInt(x) == x.n \div Unit

\* x to the k-th power, k a natural number: the library's pow, by squaring
\* and multiplying, every product rounded
RECURSIVE PowIter(_, _)
PowIter(x, k) ==
  IF k = 0 THEN Fl(1)
  ELSE IF k % 2 = 1 THEN FMul(PowIter(x, k - 1), x)
  ELSE CHOOSE sq \in {FMul(h, h) : h \in {PowIter(x, k \div 2)}} : TRUE
FPow(x, y) == IF y.c = "nan" THEN NaN ELSE PowIter(x, ToInt(y))

(***************************************************************************)
(* JavaScript values of a request body and of a response: undefined (a      *)
(* missing field), a number, or a string.  A string is either the decimal   *)
(* text of one Number (v holds it), the concatenation of several such texts *)
(* (v holds them in order), or some other text s ("abc", "fixed").          *)
(***************************************************************************)
Undefined == [t |-> "undefined", v |-> <<>>, s |-> ""]

Num(x) == [t |-> "number", v |-> <<x>>, s |-> ""]

Str(x) == [t |-> "string", v |-> <<x>>, s |-> ""]

Text(str) == [t |-> "string", v |-> <<>>, s |-> str]

\* the number of decimal digits of a natural number
RECURSIVE DigitCount(_)
DigitCount(k) == IF k < 10 THEN 1 ELSE 1 + DigitCount(k \div 10)

\* the decimal text of a finite Number: its integer part, and the digits
\* after the point (FracLen of them, none for an integer)
IntPart(x) == Abs(x.n) \div Unit

FracLen(x) ==
  CHOOSE k \in 0..FracBits :
    /\ ((Abs(x.n) % Unit) * (10 ^ k)) % Unit = 0
    /\ \A j \in 0..(k - 1) : ((Abs(x.n) % Unit) * (10 ^ j)) % Unit # 0

FracDigits(x) == ((Abs(x.n) % Unit) * (10 ^ FracLen(x))) \div Unit

\* reading the texts of the Numbers of v one after another as one decimal
\* numeral: int the digits before the point, frac the flen digits after it
NumeralStep(before, x, i) ==
  IF ~before.ok \/ x.c # "fin" \/ (i > 1 /\ x.n < 0)
       \/ (before.flen > 0 /\ FracLen(x) > 0)
    THEN [before EXCEPT !.ok = FALSE]
  ELSE IF before.flen > 0
    THEN [before EXCEPT
            !.frac = @ * (10 ^ DigitCount(IntPart(x))) + IntPart(x),
            !.flen = @ + DigitCount(IntPart(x))]
  ELSE [ok |-> TRUE,
        int |-> before.int * (10 ^ DigitCount(IntPart(x))) + IntPart(x),
        frac |-> FracDigits(x),
        flen |-> FracLen(x)]

RECURSIVE Numeral(_, _)
Numeral(v, i) ==
  IF i = 0 THEN [ok |-> TRUE, int |-> 0, frac |-> 0, flen |-> 0]
  ELSE NumeralStep(Numeral(v, i - 1), v[i], i)

\* the Number nearest to a decimal numeral with sign sgn
NumeralValue(numeral, sgn) ==
  IF ~numeral.ok THEN NaN
  ELSE RoundQ(sgn * (numeral.int * (10 ^ numeral.flen) + numeral.frac) * Unit,
              10 ^ numeral.flen)

\* Number(text) of the concatenated texts of the Numbers of v: NaN unless
\* the whole is one decimal numeral
ParseNumeral(v) == NumeralValue(Numeral(v, Len(v)), Sgn(v[1].n))

\* ToNumber of the values the handlers apply arithmetic to: undefined, a
\* number, the text of one Number, several such texts in a row, or a
\* non-numeric text.
ToNumber(j) ==
  CASE j.t = "number" -> j.v[1]
    [] j.t = "string" /\ j.s # "" -> NaN
    [] j.t = "string" /\ j.s = "" /\ Len(j.v) = 1 -> j.v[1]
    [] j.t = "string" /\ j.s = "" /\ Len(j.v) = 0 -> NaN
    [] j.t = "string" /\ j.s = "" /\ Len(j.v) > 1 -> ParseNumeral(j.v)
    [] j.t = "undefined" -> NaN

\* a / b
JDiv(a, b) == Num(FDiv(ToNumber(a), ToNumber(b)))

\* a * b
JMul(a, b) == Num(FMul(ToNumber(a), ToNumber(b)))

\* a - b
JSub(a, b) == Num(FSub(ToNumber(a), ToNumber(b)))

\* a + b: concatenation as soon as one operand is a string
JAdd(a, b) ==
  IF a.t = "string" \/ b.t = "string"
    THEN [t |-> "string", v |-> a.v \o b.v, s |-> a.s \o b.s]
    ELSE Num(FAdd(ToNumber(a), ToNumber(b)))

\* a === b for two values of which one is a number
StrictEq(a, b) == a.t = "number" /\ b.t = "number" /\ a.v[1].c # "nan" /\ a = b

\* Math.max(a, b)
MathMax(a, b) == Num(FMax(ToNumber(a), ToNumber(b)))

\* Math.min(a, b)
MathMin(a, b) == Num(FMin(ToNumber(a), ToNumber(b)))

\* Math.pow(a, b)
MathPow(a, b) == Num(FPow(ToNumber(a), ToNumber(b)))

(***************************************************************************)
(* The annuity payment, written three times in the source (calculate,       *)
(* affordability, compare) with the same shape.                             *)
(***************************************************************************)
\* the branch condition: monthlyInterestRate === 0
IsZeroRate(monthlyInterestRate) == StrictEq(monthlyInterestRate, Num(Fl(0)))

\* amount * (r * pow(1 + r, n)) / (pow(1 + r, n) - 1)
AnnuityPayment(amount, monthlyInterestRate, loanTermMonths) ==
  JDiv(JMul(amount,
            JMul(monthlyInterestRate,
                 MathPow(JAdd(Num(Fl(1)), monthlyInterestRate), loanTermMonths))),
       JSub(MathPow(JAdd(Num(Fl(1)), monthlyInterestRate), loanTermMonths),
            Num(Fl(1))))

(***************************************************************************)
(* POST /calculate                                                          *)
(***************************************************************************)
MonthsPerYear == 12

\* interestRate / 100 / 12
MonthlyRate(interestRate) == JDiv(JDiv(interestRate, Num(Fl(100))), Num(Fl(MonthsPerYear)))

\* loanTerm * 12
TermMonths(loanTerm) == JMul(loanTerm, Num(Fl(MonthsPerYear)))

\* the payment of calculate: both branches of the if
CalcMonthlyPayment(principal, monthlyInterestRate, loanTermMonths) ==
  IF IsZeroRate(monthlyInterestRate)
    THEN JDiv(principal, loanTermMonths)
    ELSE AnnuityPayment(principal, monthlyInterestRate, loanTermMonths)

\* CalcTotalPayment without the zero-rate branch
CalcTotalPayment_NoZeroBranch(principal, monthlyInterestRate, loanTermMonths, monthlyPayment) ==
  JMul(monthlyPayment, loanTermMonths)

CalcTotalPayment(principal, monthlyInterestRate, loanTermMonths, monthlyPayment) ==
  IF IsZeroRate(monthlyInterestRate)
    THEN principal
    ELSE JMul(monthlyPayment, loanTermMonths)

CalcTotalInterest(principal, monthlyInterestRate, totalPayment) ==
  IF IsZeroRate(monthlyInterestRate)
    THEN Num(Fl(0))
    ELSE JSub(totalPayment, principal)

\* Retained without the yearly rows
Retained_FirstYearAndLast(month, loanTermMonths) ==
  \/ month <= MonthsPerYear
  \/ StrictEq(Num(Fl(month)), loanTermMonths)

\* month <= 12 || month === loanTermMonths || month % 12 === 0
Retained(month, loanTermMonths) ==
  \/ month <= MonthsPerYear
  \/ StrictEq(Num(Fl(month)), loanTermMonths)
  \/ month % MonthsPerYear = 0

\* ScheduleRow with the payment put together from its two parts
ScheduleRow_PaymentFromParts(month, monthlyPayment, principalPayment, interestPayment, balance) ==
  [month |-> Num(Fl(month)),
   payment |-> JAdd(principalPayment, interestPayment),
   principalPayment |-> principalPayment,
   interestPayment |-> interestPayment,
   remainingBalance |-> MathMax(Num(Fl(0)), balance)]

\* the row pushed for a month; balance is the running remainingBalance after
\* this month's payment
ScheduleRow(month, monthlyPayment, principalPayment, interestPayment, balance) ==
  [month |-> Num(Fl(month)),
   payment |-> monthlyPayment,
   principalPayment |-> principalPayment,
   interestPayment |-> interestPayment,
   remainingBalance |-> MathMax(Num(Fl(0)), balance)]

\* the handler's locals when the for loop is entered: month = 1,
\* remainingBalance = principal, amortizationSchedule = []
CalculateFrame(principal, monthlyInterestRate, loanTermMonths, monthlyPayment, totalPayment) ==
  [monthlyInterestRate |-> monthlyInterestRate,
   loanTermMonths |-> loanTermMonths,
   monthlyPayment |-> monthlyPayment,
   totalPayment |-> totalPayment,
   totalInterest |-> CalcTotalInterest(principal, monthlyInterestRate, totalPayment),
   month |-> 1,
   remainingBalance |-> principal,
   amortizationSchedule |-> <<>>]

\* ... with the total payment computed from the monthly payment
CalculateTotals(principal, monthlyInterestRate, loanTermMonths, monthlyPayment) ==
  CalculateFrame(principal, monthlyInterestRate, loanTermMonths, monthlyPayment,
                 CalcTotalPayment(principal, monthlyInterestRate, loanTermMonths,
                                  monthlyPayment))

\* ... with the monthly payment computed from the monthly rate and the months
CalculateTerms(principal, monthlyInterestRate, loanTermMonths) ==
  CalculateTotals(principal, monthlyInterestRate, loanTermMonths,
                  CalcMonthlyPayment(principal, monthlyInterestRate, loanTermMonths))

CalculateLocals(b) ==
  CalculateTerms(b.principal, MonthlyRate(b.interestRate), TermMonths(b.loanTerm))

\* amortizationSchedule.push(...) in the pass for l.month throws: the month
\* is retained and the array is at its greatest length
PushThrows(l) ==
  /\ Retained(l.month, l.loanTermMonths)
  /\ Len(l.amortizationSchedule) >= MaxArrayLength

\* the loop condition: month <= loanTermMonths
LoopCondition(l) == FLe(Fl(l.month), ToNumber(l.loanTermMonths))

\* one pass of the loop body, and month++
LoopStep(l, interestPayment, principalPayment, balance) ==
  [l EXCEPT
     !.remainingBalance = balance,
     !.amortizationSchedule =
       IF Retained(l.month, l.loanTermMonths)
         THEN Append(@, ScheduleRow(l.month, l.monthlyPayment, principalPayment,
                                    interestPayment, balance))
         ELSE @,
     !.month = @ + 1]

\* ... with the running balance clamped as the reported one is
LoopBalance_Clamped(l, interestPayment, principalPayment) ==
  LoopStep(l, interestPayment, principalPayment,
           MathMax(Num(Fl(0)), JSub(l.remainingBalance, principalPayment)))

\* remainingBalance -= principalPayment
LoopBalance(l, interestPayment, principalPayment) ==
  LoopStep(l, interestPayment, principalPayment,
           JSub(l.remainingBalance, principalPayment))

\* principalPayment = monthlyPayment - interestPayment
LoopPrincipal(l, interestPayment) ==
  LoopBalance(l, interestPayment, JSub(l.monthlyPayment, interestPayment))

\* interestPayment = remainingBalance * monthlyInterestRate
LoopBody(l) == LoopPrincipal(l, JMul(l.remainingBalance, l.monthlyInterestRate))

\* the results object of the calculate response
CalculateResults(l) ==
  [monthlyPayment |-> l.monthlyPayment,
   totalPayment |-> l.totalPayment,
   totalInterest |-> l.totalInterest,
   amortizationSchedule |-> l.amortizationSchedule]

(***************************************************************************)
(* The validation schemas (Joi) of the three routes.  A number field is     *)
(* described by its rules in the order the schema chains them, and by the   *)
(* message the schema gives each error type.                                *)
(***************************************************************************)
PositiveNumber(key, label) ==
  [key |-> key, type |-> "number", rules |-> <<"number.positive">>,
   messages |-> ("number.base" :> (label \o " must be a number")
              @@ "number.positive" :> (label \o " must be a positive number")
              @@ "any.required" :> (label \o " is required"))]

NonNegativeNumber(key, label, required) ==
  [key |-> key, type |-> "number", rules |-> <<"number.min">>,
   messages |-> ("number.base" :> (label \o " must be a number")
              @@ "number.min" :> (label \o " cannot be negative")
              @@ "any.required" :> required)]

PositiveInteger(key, label) ==
  [key |-> key, type |-> "number", rules |-> <<"number.integer", "number.positive">>,
   messages |-> ("number.base" :> (label \o " must be a number")
              @@ "number.integer" :> (label \o " must be an integer")
              @@ "number.positive" :> (label \o " must be a positive number")
              @@ "any.required" :> (label \o " is required"))]

RequiredString(key, label) ==
  [key |-> key, type |-> "string", rules |-> <<>>,
   messages |-> ("string.base" :> (label \o " must be a string")
              @@ "any.required" :> (label \o " is required"))]

calculateSchema ==
  << PositiveNumber("principal", "Principal"),
     NonNegativeNumber("interestRate", "Interest rate", "Interest rate is required"),
     PositiveInteger("loanTerm", "Loan term") >>

affordabilitySchema ==
  << PositiveNumber("annualIncome", "Annual income"),
     NonNegativeNumber("monthlyDebts", "Monthly debts", "Monthly debts are required"),
     NonNegativeNumber("downPayment", "Down payment", "Down payment is required"),
     NonNegativeNumber("interestRate", "Interest rate", "Interest rate is required"),
     PositiveInteger("loanTerm", "Loan term"),
     NonNegativeNumber("propertyTaxRate", "Property tax rate", "Property tax rate is required"),
     NonNegativeNumber("insuranceRate", "Insurance rate", "Insurance rate is required") >>

loanOptionSchema ==
  << PositiveNumber("amount", "Loan amount"),
     NonNegativeNumber("interestRate", "Interest rate", "Interest rate is required"),
     PositiveInteger("term", "Loan term"),
     RequiredString("type", "Loan type"),
     NonNegativeNumber("points", "Points", "Points are required"),
     NonNegativeNumber("fees", "Fees", "Fees are required") >>

\* loanOptions: .min(1).max(3)
MinLoanOptions == 1

MaxLoanOptions == 3

(***************************************************************************)
(* schema.validate(value, {abortEarly: false, stripUnknown: true,           *)
(* convert: true}): the error details, in order.                            *)
(***************************************************************************)
\* convert: true lets a string that is the text of a number stand for it
IsNumeric(value) ==
  \/ value.t = "number"
  \/ value.t = "string" /\ Len(value.v) = 1

\* RuleFails with number.positive letting zero through
RuleFails_ZeroIsPositive(rule, x) ==
  CASE rule = "number.positive" -> ~FLe(Zero, x)
    [] rule = "number.min" -> FLt(x, Zero)
    [] rule = "number.integer" -> ~IsInteger(x)

RuleFails(rule, x) ==
  CASE rule = "number.positive" -> ~FLt(Zero, x)
    [] rule = "number.min" -> FLt(x, Zero)
    [] rule = "number.integer" -> ~IsInteger(x)

RECURSIVE RuleErrors(_, _)
RuleErrors(rules, x) ==
  IF rules = <<>> THEN <<>>
  ELSE (IF RuleFails(Head(rules), x) THEN <<Head(rules)>> ELSE <<>>)
       \o RuleErrors(Tail(rules), x)

\* the error types one key's value raises, in order
KeyErrors(field, value) ==
  IF value.t = "undefined" THEN <<"any.required">>
  ELSE IF field.type = "string"
    THEN (IF value.t = "string" THEN <<>> ELSE <<"string.base">>)
  ELSE IF ~IsNumeric(value) THEN <<"number.base">>
  ELSE RuleErrors(field.rules, value.v[1])

\* the details of one key: path and message
KeyDetails(prefix, field, value) ==
  LET errs == KeyErrors(field, value)
  IN [i \in 1..Len(errs) |->
        [path |-> prefix \o field.key, message |-> field.messages[errs[i]]]]

RECURSIVE ObjectDetails(_, _, _)
ObjectDetails(prefix, schema, object) ==
  IF schema = <<>> THEN <<>>
  ELSE KeyDetails(prefix, Head(schema), object[Head(schema).key])
       \o ObjectDetails(prefix, Tail(schema), object)

RECURSIVE ItemsDetails(_, _)
ItemsDetails(items, i) ==
  IF i > Len(items) THEN <<>>
  ELSE ObjectDetails("loanOptions." \o ToString(i - 1) \o ".", loanOptionSchema, items[i])
       \o ItemsDetails(items, i + 1)

\* ComparisonDetails without .max(3)
ComparisonDetails_NoMax(b) ==
  IF b.loanOptions.t = "undefined"
    THEN << [path |-> "loanOptions", message |-> "Loan options are required"] >>
    ELSE ItemsDetails(b.loanOptions.items, 1)
         \o (IF Len(b.loanOptions.items) < MinLoanOptions
               THEN << [path |-> "loanOptions",
                        message |-> "At least one loan option is required"] >>
               ELSE <<>>)

\* Joi.array().items(...).min(1).max(3).required()
ComparisonDetails(b) ==
  IF b.loanOptions.t = "undefined"
    THEN << [path |-> "loanOptions", message |-> "Loan options are required"] >>
    ELSE ItemsDetails(b.loanOptions.items, 1)
         \o (IF Len(b.loanOptions.items) < MinLoanOptions
               THEN << [path |-> "loanOptions",
                        message |-> "At least one loan option is required"] >>
               ELSE <<>>)
         \o (IF Len(b.loanOptions.items) > MaxLoanOptions
               THEN << [path |-> "loanOptions",
                        message |-> "Maximum of three loan options allowed"] >>
               ELSE <<>>)

\* error.details of the route's schema for a body
SchemaDetails(route, b) ==
  CASE route = "calculate" -> ObjectDetails("", calculateSchema, b)
    [] route = "affordability" -> ObjectDetails("", affordabilitySchema, b)
    [] route = "compare" -> ComparisonDetails(b)

\* errors[path] = detail.message for each detail in turn: the last one stays
ErrorsOf(details) ==
  [p \in {details[i].path : i \in DOMAIN details} |->
     LET last == CHOOSE i \in DOMAIN details :
                   /\ details[i].path = p
                   /\ \A j \in DOMAIN details : details[j].path = p => j <= i
     IN details[last].message]

(***************************************************************************)
(* POST /affordability                                                      *)
(***************************************************************************)
\* AvailableForHousing clamped at 0
AvailableForHousing_Clamped(monthlyIncome, monthlyDebts) ==
  MathMax(Num(Fl(0)),
          MathMin(JMul(monthlyIncome, Num(FlQ(28, 100))),
                  JSub(JMul(monthlyIncome, Num(FlQ(36, 100))), monthlyDebts)))

\* Math.min(maxHousingPayment, maxTotalDebtPayment - monthlyDebts)
AvailableForHousing(monthlyIncome, monthlyDebts) ==
  MathMin(JMul(monthlyIncome, Num(FlQ(28, 100))),
          JSub(JMul(monthlyIncome, Num(FlQ(36, 100))), monthlyDebts))

\* the maximum loan amount: both branches of the if
MaxLoanAmount(availableForHousing, monthlyInterestRate, loanTermMonths, propertyTaxRate, insuranceRate) ==
  IF IsZeroRate(monthlyInterestRate)
    THEN JMul(availableForHousing, loanTermMonths)
    ELSE JDiv(availableForHousing,
              JAdd(JAdd(JDiv(JMul(monthlyInterestRate,
                                  MathPow(JAdd(Num(Fl(1)), monthlyInterestRate),
                                          loanTermMonths)),
                             JSub(MathPow(JAdd(Num(Fl(1)), monthlyInterestRate),
                                          loanTermMonths),
                                  Num(Fl(1)))),
                        JDiv(JDiv(propertyTaxRate, Num(Fl(100))), Num(Fl(MonthsPerYear)))),
                   JDiv(JDiv(insuranceRate, Num(Fl(100))), Num(Fl(MonthsPerYear)))))

\* principal and interest on the loan amount: both branches of the if
PrincipalAndInterest(loanAmount, monthlyInterestRate, loanTermMonths) ==
  IF IsZeroRate(monthlyInterestRate)
    THEN JDiv(loanAmount, loanTermMonths)
    ELSE AnnuityPayment(loanAmount, monthlyInterestRate, loanTermMonths)

AffordabilityResults(maxHomePrice, principalAndInterest, monthlyTaxes, monthlyInsurance, totalMonthlyPayment, debtToIncomeRatio) ==
  [maxHomePrice |-> maxHomePrice,
   monthlyPayment |-> totalMonthlyPayment,
   paymentBreakdown |-> [principalAndInterest |-> principalAndInterest,
                         taxes |-> monthlyTaxes,
                         insurance |-> monthlyInsurance],
   debtToIncomeRatio |-> debtToIncomeRatio]

\* ((totalMonthlyPayment + monthlyDebts) / monthlyIncome) * 100
DebtToIncomeRatio(totalMonthlyPayment, monthlyDebts, monthlyIncome) ==
  JMul(JDiv(JAdd(totalMonthlyPayment, monthlyDebts), monthlyIncome), Num(Fl(100)))

\* (maxHomePrice * rate / 100) / 12
MonthlyShare(maxHomePrice, rate) ==
  JDiv(JDiv(JMul(maxHomePrice, rate), Num(Fl(100))), Num(Fl(MonthsPerYear)))

\* the results from the total monthly payment on
AffordabilityOfTotal(b, monthlyIncome, maxHomePrice, principalAndInterest, monthlyTaxes, monthlyInsurance, totalMonthlyPayment) ==
  AffordabilityResults(maxHomePrice, principalAndInterest, monthlyTaxes,
                       monthlyInsurance, totalMonthlyPayment,
                       DebtToIncomeRatio(totalMonthlyPayment, b.monthlyDebts,
                                         monthlyIncome))

\* the results from the parts of the monthly payment on
AffordabilityOfParts(b, monthlyIncome, maxHomePrice, principalAndInterest, monthlyTaxes, monthlyInsurance) ==
  AffordabilityOfTotal(b, monthlyIncome, maxHomePrice, principalAndInterest,
                       monthlyTaxes, monthlyInsurance,
                       JAdd(JAdd(principalAndInterest, monthlyTaxes), monthlyInsurance))

\* the results from the maximum home price on
AffordabilityOfPrice(b, monthlyIncome, monthlyInterestRate, loanTermMonths, maxHomePrice) ==
  AffordabilityOfParts(b, monthlyIncome, maxHomePrice,
                       PrincipalAndInterest(JSub(maxHomePrice, b.downPayment),
                                            monthlyInterestRate, loanTermMonths),
                       MonthlyShare(maxHomePrice, b.propertyTaxRate),
                       MonthlyShare(maxHomePrice, b.insuranceRate))

\* the results from the monthly income, rate and months on
AffordabilityOfTerms(b, monthlyIncome, monthlyInterestRate, loanTermMonths) ==
  AffordabilityOfPrice(b, monthlyIncome, monthlyInterestRate, loanTermMonths,
                       JAdd(MaxLoanAmount(AvailableForHousing(monthlyIncome,
                                                              b.monthlyDebts),
                                          monthlyInterestRate, loanTermMonths,
                                          b.propertyTaxRate, b.insuranceRate),
                            b.downPayment))

\* the handler's results object for a request body
Affordability(b) ==
  AffordabilityOfTerms(b, JDiv(b.annualIncome, Num(Fl(MonthsPerYear))),
                       MonthlyRate(b.interestRate), TermMonths(b.loanTerm))

(***************************************************************************)
(* POST /compare                                                            *)
(***************************************************************************)
\* (points / 100) * amount
PointsCost(points, amount) == JMul(JDiv(points, Num(Fl(100))), amount)

\* the payment of one option: both branches of the if
OptionMonthlyPayment(amount, monthlyInterestRate, loanTermMonths) ==
  IF IsZeroRate(monthlyInterestRate)
    THEN JDiv(amount, loanTermMonths)
    ELSE AnnuityPayment(amount, monthlyInterestRate, loanTermMonths)

\* monthlyPayment * loanTermMonths - amount
OptionTotalInterest(monthlyPayment, loanTermMonths, amount) ==
  JSub(JMul(monthlyPayment, loanTermMonths), amount)

\* OptionTotalCost without the cost of the points
OptionTotalCost_NoPoints(amount, totalInterest, pointsCost, fees) ==
  JAdd(JAdd(amount, totalInterest), fees)

\* amount + totalInterest + pointsCost + fees
OptionTotalCost(amount, totalInterest, pointsCost, fees) ==
  JAdd(JAdd(JAdd(amount, totalInterest), pointsCost), fees)

\* the callback of loanOptions.map: {...option, monthlyPayment, totalInterest,
\* totalCost}
CompareResult(option, monthlyPayment, totalInterest, totalCost) ==
  [k \in DOMAIN option \cup {"monthlyPayment", "totalInterest", "totalCost"} |->
     CASE k = "monthlyPayment" -> monthlyPayment
       [] k = "totalInterest" -> totalInterest
       [] k = "totalCost" -> totalCost
       [] OTHER -> option[k]]

\* ... with the total cost computed from the total interest
CompareOfInterest(option, monthlyPayment, totalInterest) ==
  CompareResult(option, monthlyPayment, totalInterest,
                OptionTotalCost(option.amount, totalInterest,
                                PointsCost(option.points, option.amount), option.fees))

\* ... with the total interest computed from the monthly payment
CompareOfPayment(option, loanTermMonths, monthlyPayment) ==
  CompareOfInterest(option, monthlyPayment,
                    OptionTotalInterest(monthlyPayment, loanTermMonths, option.amount))

\* ... with the monthly payment computed from the monthly rate and the months
CompareOfTerms(option, monthlyInterestRate, loanTermMonths) ==
  CompareOfPayment(option, loanTermMonths,
                   OptionMonthlyPayment(option.amount, monthlyInterestRate,
                                        loanTermMonths))

CompareOption(option) ==
  CompareOfTerms(option, MonthlyRate(option.interestRate), TermMonths(option.term))

\* Compare with the results in reverse order
Compare_Reversed(b) ==
  [i \in 1..Len(b.loanOptions.items) |->
     CompareOption(b.loanOptions.items[Len(b.loanOptions.items) + 1 - i])]

\* loanOptions.map(...)
Compare(b) ==
  [i \in 1..Len(b.loanOptions.items) |-> CompareOption(b.loanOptions.items[i])]

(***************************************************************************)
(* The request bodies clients send.                                         *)
(***************************************************************************)
PrincipalVals ==
  {Undefined, Text("abc"), Num(Fl(0)), Num(Fl(-50)),
   Num(Fl(96)), Num(Fl(100)), Str(Fl(100)), Num(Fl(250))}

RateVals ==
  {Undefined, Text("abc"), Num(Fl(-1)),
   Num(Fl(0)), Str(Fl(0)), Num(Fl(24)), Num(Fl(150)), Num(Fl(450))}

TermVals ==
  {Undefined, Text("abc"), Num(Fl(0)), Num(Fl(-1)), Num(FlQ(3, 2)), Str(Fl(1))}
  \cup {Num(Fl(y)) : y \in 1..MaxTermYears}

\* the shortest term whose schedule, termYears + 11 rows, outgrows an array
OverlongTermYears == MaxArrayLength - 10

\* every combination of the values above, and a loan over the overlong term
CalculateBodies ==
  [principal : PrincipalVals, interestRate : RateVals, loanTerm : TermVals]
  \cup {[principal |-> Num(Fl(100)), interestRate |-> Num(Fl(0)),
          loanTerm |-> Num(Fl(OverlongTermYears))]}

AffordabilityBody(annualIncome, monthlyDebts, downPayment, interestRate, loanTerm, propertyTaxRate, insuranceRate) ==
  [annualIncome |-> annualIncome, monthlyDebts |-> monthlyDebts,
   downPayment |-> downPayment, interestRate |-> interestRate,
   loanTerm |-> loanTerm, propertyTaxRate |-> propertyTaxRate,
   insuranceRate |-> insuranceRate]

\* every combination of a few values per field; bodies with the downPayment
\* sent as a string; and bodies whose debts are just above the limit while
\* the downPayment is large
AffordabilityBodies ==
  [annualIncome : {Undefined, Num(Fl(0)), Num(Fl(240))},
   monthlyDebts : {Text("abc"), Num(Fl(0)), Num(Fl(4)), Num(Fl(12))},
   downPayment : {Undefined, Num(Fl(0)), Num(Fl(20))},
   interestRate : {Num(Fl(-1)), Num(Fl(0)), Num(Fl(150))},
   loanTerm : {Num(FlQ(3, 2)), Num(Fl(1)), Num(Fl(MaxTermYears))},
   propertyTaxRate : {Num(Fl(0)), Num(Fl(12))},
   insuranceRate : {Num(Fl(-1)), Num(Fl(6))}]
  \cup {AffordabilityBody(Num(Fl(240)), Num(Fl(4)), Str(Fl(5)), rate, Num(Fl(1)),
                          Num(Fl(12)), Num(Fl(6))) :
          rate \in {Num(Fl(0)), Num(Fl(150))}}
  \cup {AffordabilityBody(Str(Fl(240)), Str(Fl(12)), Num(Fl(20)), Str(Fl(0)), Str(Fl(1)),
                          Str(Fl(12)), Str(Fl(6)))}
  \cup {AffordabilityBody(Num(Fl(240)), Num(FlQ(121, 16)), Num(Fl(250)), rate, Num(Fl(1)),
                          Num(Fl(0)), Num(Fl(6))) :
          rate \in {Num(Fl(0)), Num(Fl(150))}}

Option(amount, interestRate, term, type, points, fees) ==
  [amount |-> amount, interestRate |-> interestRate, term |-> term,
   type |-> type, points |-> points, fees |-> fees]

\* the keys of the loan option schema
OptionKeys == {"amount", "interestRate", "term", "type", "points", "fees"}

\* the options sent: valid ones, one of them with a key the schema does not
\* know, numeric strings, and invalid ones
OptionVals ==
  { Option(Num(Fl(100)), Num(Fl(0)), Num(Fl(1)), Text("fixed"), Num(Fl(0)), Num(Fl(2))),
    Option(Num(Fl(100)), Num(Fl(0)), Num(Fl(1)), Text("fixed"), Num(Fl(2)), Num(Fl(2))),
    Option(Num(Fl(90)), Num(Fl(150)), Num(Fl(2)), Text("arm"), Num(Fl(0)), Num(FlQ(5, 2))),
    [k \in OptionKeys \cup {"promo"} |->
       IF k = "promo" THEN Text("abc")
       ELSE Option(Num(Fl(90)), Num(Fl(150)), Num(Fl(2)), Text("arm"), Num(Fl(3)),
                   Num(FlQ(5, 2)))[k]],
    Option(Str(Fl(100)), Num(Fl(24)), Str(Fl(1)), Text("fixed"), Num(Fl(0)), Str(Fl(2))),
    Option(Str(Fl(100)), Num(Fl(24)), Str(Fl(1)), Text("fixed"), Num(Fl(1)), Str(Fl(2))),
    Option(Undefined, Text("abc"), Num(FlQ(3, 2)), Undefined, Num(Fl(-1)), Num(Fl(-2))),
    Option(Num(Fl(0)), Num(Fl(0)), Num(Fl(-1)), Num(Fl(7)), Text("abc"), Undefined) }

\* the sequences over S of length 0..n
RECURSIVE SeqsOf(_, _)
SeqsOf(S, n) ==
  IF n = 0 THEN {<<>>}
  ELSE LET shorter == SeqsOf(S, n - 1)
       IN shorter \cup {Append(q, x) : q \in {t \in shorter : Len(t) = n - 1}, x \in S}

CompareBodies ==
  {[loanOptions |-> Undefined]}
  \cup {[loanOptions |-> [t |-> "array", items |-> q]] : q \in SeqsOf(OptionVals, MaxLoanOptions + 1)}

Routes == {"calculate", "affordability", "compare"}

BodiesOf(r) ==
  CASE r = "calculate" -> CalculateBodies
    [] r = "affordability" -> AffordabilityBodies
    [] r = "compare" -> CompareBodies

\* a request: the route it is posted to and its body
Request(r, b) == [route |-> r, body |-> b]

\* the requests of the concurrent machine: two loans over one year, a body
\* that fails validation, an affordability question and a comparison
ProbeRequests ==
  { Request("calculate", [principal |-> Num(Fl(100)), interestRate |-> Num(Fl(24)),
                          loanTerm |-> Num(Fl(1))]),
    Request("calculate", [principal |-> Num(Fl(96)), interestRate |-> Num(Fl(0)),
                          loanTerm |-> Num(Fl(1))]),
    Request("calculate", [principal |-> Undefined, interestRate |-> Num(Fl(0)),
                          loanTerm |-> Num(Fl(1))]),
    Request("affordability",
            AffordabilityBody(Num(Fl(240)), Num(Fl(4)), Num(Fl(20)), Num(Fl(150)),
                              Num(Fl(1)), Num(Fl(12)), Num(Fl(6)))),
    Request("compare",
            [loanOptions |->
               [t |-> "array",
                items |-> <<Option(Num(Fl(100)), Num(Fl(0)), Num(Fl(1)), Text("fixed"),
                                   Num(Fl(2)), Num(Fl(2))),
                            Option(Num(Fl(90)), Num(Fl(150)), Num(Fl(2)), Text("arm"),
                                   Num(Fl(0)), Num(FlQ(5, 2)))>>]]) }

(***************************************************************************)
(* One request at a time through a route's middleware chain:                *)
(* validate(schema), then the handler.                                      *)
(***************************************************************************)
VARIABLES pc, route, body, res, nextCalled, engineRan, locals

\* several requests in flight at once (the concurrent machine, below): the
\* call of each slot and the activation records of the calculate handler
VARIABLES calls, frames

\* a request on its way through the application assembled by server.js (the
\* server machine, below): the request, the layer of the stack it is at, the
\* response, and whether NODE_ENV is 'production'
VARIABLES request, layer, response, production

\* the rate limiter of the middleware (the limiter machine, below): the clock,
\* the two maps every limiter instance shares, the instances created and the
\* time each one's cleanup timer is due, and the layers that mount them
VARIABLES now, requestCounts, blockedIPs, limiters, due, mounted

\* what the clients of the limiter have seen: the number of requests sent,
\* per key the requests answered up to the first 429 and the times of the
\* latest passes, and per address the last block set
VARIABLES arrivals, handled, passes, blockSet

\* the response cache of the middleware (the cache machine, below): the
\* clock, the map every cache instance shares, and the requests in flight
VARIABLES clock, cache, pending

\* the user accounts (the accounts machine, below): the User documents, the
\* users with an Agent document, the next _id, and what was seen: the users
\* that were admin at the start or were made admin through PUT
\* /api/users/:id/role, and the last request answered
VARIABLES users, agents, nextUserId, granted, userCall

\* the favorites (the favorites machine, below): the Favorite documents, and
\* the POST /api/favorites/:propertyId requests in flight
VARIABLES favorites, adds

\* the reviews of a property (the reviews machine, below): the Property
\* document, the next review _id and the last answer
VARIABLES property, nextReviewId, reviewReply

cvars == <<calls, frames>>

uvars == <<users, agents, nextUserId, granted, userCall>>

fvars == <<favorites, adds>>

wvars == <<property, nextReviewId, reviewReply>>

kvars == <<clock, cache, pending>>

lvars == <<now, requestCounts, blockedIPs, limiters, due, mounted>>

ovars == <<arrivals, handled, passes, blockSet>>

\* the variables of the machines beside the mortgage router's
xvars == <<lvars, ovars, kvars, uvars, fvars, wvars>>

svars == <<request, layer, response, production>>

rvars == <<pc, route, body, res, nextCalled, engineRan, locals>>

vars == <<rvars, cvars, svars, xvars>>

\* the variables of the machines beside the limiter's, and beside the cache's
exceptLimiter == <<rvars, cvars, svars, kvars, uvars, fvars, wvars>>

exceptCache == <<rvars, cvars, svars, lvars, ovars, uvars, fvars, wvars>>

exceptAccounts == <<rvars, cvars, svars, lvars, ovars, kvars, fvars, wvars>>

exceptFavorites == <<rvars, cvars, svars, lvars, ovars, kvars, uvars, wvars>>

exceptReviews == <<rvars, cvars, svars, lvars, ovars, kvars, uvars, fvars>>

NoBody == [none |-> TRUE]

NoRes == [status |-> 0]

NoLocals == [none |-> TRUE]

\* a slot of the concurrent machine with no request in it
NoCall == [pc |-> "idle"]

\* nothing in flight in the concurrent machine
NoCalls ==
  /\ calls = [slot \in 1..MaxInFlight |-> NoCall]
  /\ frames = [slot \in 1..MaxInFlight |-> NoLocals]

\* nothing on its way through the server machine
NoRequest ==
  /\ request = NoBody
  /\ layer = 0
  /\ response = NoRes
  /\ production = FALSE

\* the limiter machine at rest: no instance created, the maps empty
NoLimiter ==
  /\ now = 0
  /\ requestCounts = <<>>
  /\ blockedIPs = <<>>
  /\ limiters = <<>>
  /\ due = <<>>
  /\ mounted = <<>>
  /\ arrivals = 0
  /\ handled = <<>>
  /\ passes = <<>>
  /\ blockSet = <<>>

\* the cache machine at rest: nothing stored, nothing in flight
NoCache ==
  /\ clock = 0
  /\ cache = <<>>
  /\ pending = <<>>

\* no answer yet
NoReply == [status |-> 0]

\* the accounts machine at rest: no document
NoAccounts ==
  /\ users = <<>>
  /\ agents = {}
  /\ nextUserId = 1
  /\ granted = {}
  /\ userCall = NoReply

\* the favorites machine at rest
NoFavorites ==
  /\ favorites = <<>>
  /\ adds = <<>>

\* the reviews machine at rest
NoReviews ==
  /\ property = [none |-> TRUE]
  /\ nextReviewId = 1
  /\ reviewReply = NoReply

\* the machines beside the mortgage router's at rest
Rest == NoLimiter /\ NoCache /\ NoAccounts /\ NoFavorites /\ NoReviews

Init ==
  /\ pc = "idle"
  /\ route = "none"
  /\ body = NoBody
  /\ res = NoRes
  /\ nextCalled = FALSE
  /\ engineRan = FALSE
  /\ locals = NoLocals
  /\ NoCalls
  /\ NoRequest
  /\ Rest

\* a POST arrives at one of the three routes
Receive(r, b) ==
  /\ pc = "idle"
  /\ pc' = "validate"
  /\ route' = r
  /\ body' = b
  /\ res' = NoRes
  /\ nextCalled' = FALSE
  /\ engineRan' = FALSE
  /\ locals' = NoLocals
  /\ UNCHANGED <<cvars, svars, xvars>>

\* validate(schema): if (!error) return next()
ValidatePass ==
  /\ pc = "validate"
  /\ SchemaDetails(route, body) = <<>>
  /\ nextCalled' = TRUE
  /\ pc' = "handler"
  /\ UNCHANGED <<route, body, res, engineRan, locals>>
  /\ UNCHANGED <<cvars, svars, xvars>>

\* validate(schema): res.status(400).json({success: false, message, errors})
ValidateFail ==
  /\ pc = "validate"
  /\ SchemaDetails(route, body) # <<>>
  /\ res' = [status |-> 400, success |-> FALSE, message |-> "Validation failed",
             errors |-> ErrorsOf(SchemaDetails(route, body))]
  /\ pc' = "sent"
  /\ UNCHANGED <<route, body, nextCalled, engineRan, locals>>
  /\ UNCHANGED <<cvars, svars, xvars>>

\* router.post('/calculate', ..., handler), up to the for loop
HandleCalculate ==
  /\ pc = "handler"
  /\ route = "calculate"
  /\ locals' = CalculateLocals(body)
  /\ engineRan' = TRUE
  /\ pc' = "loop"
  /\ UNCHANGED <<route, body, res, nextCalled>>
  /\ UNCHANGED <<cvars, svars, xvars>>

\* the calculate handler, one month of the for loop
HandleCalculateLoop ==
  /\ pc = "loop"
  /\ LoopCondition(locals)
  /\ ~PushThrows(locals)
  /\ locals' = LoopBody(locals)
  /\ UNCHANGED <<pc, route, body, res, nextCalled, engineRan>>
  /\ UNCHANGED <<cvars, svars, xvars>>

\* the calculate handler after the loop: res.json({success: true, results})
HandleCalculateSend ==
  /\ pc = "loop"
  /\ ~LoopCondition(locals)
  /\ res' = [status |-> 200, success |-> TRUE, results |-> CalculateResults(locals)]
  /\ locals' = NoLocals
  /\ pc' = "sent"
  /\ UNCHANGED <<route, body, nextCalled, engineRan>>
  /\ UNCHANGED <<cvars, svars, xvars>>

\* the calculate handler's catch block: an exception thrown in the try block
\* is answered with res.status(500).json({success: false, message})
HandleCalculateCatch ==
  /\ pc = "loop"
  /\ LoopCondition(locals)
  /\ PushThrows(locals)
  /\ res' = [status |-> 500, success |-> FALSE,
             message |-> "Error calculating mortgage"]
  /\ locals' = NoLocals
  /\ pc' = "sent"
  /\ UNCHANGED <<route, body, nextCalled, engineRan>>
  /\ UNCHANGED <<cvars, svars, xvars>>

\* router.post('/affordability', ..., handler)
HandleAffordability ==
  /\ pc = "handler"
  /\ route = "affordability"
  /\ res' = [status |-> 200, success |-> TRUE, results |-> Affordability(body)]
  /\ engineRan' = TRUE
  /\ pc' = "sent"
  /\ UNCHANGED <<route, body, nextCalled, locals>>
  /\ UNCHANGED <<cvars, svars, xvars>>

\* router.post('/compare', ..., handler)
HandleCompare ==
  /\ pc = "handler"
  /\ route = "compare"
  /\ res' = [status |-> 200, success |-> TRUE, results |-> Compare(body)]
  /\ engineRan' = TRUE
  /\ pc' = "sent"
  /\ UNCHANGED <<route, body, nextCalled, locals>>
  /\ UNCHANGED <<cvars, svars, xvars>>

\* the response is out and the request's objects are dropped
Finish ==
  /\ pc = "sent"
  /\ pc' = "idle"
  /\ route' = "none"
  /\ body' = NoBody
  /\ res' = NoRes
  /\ nextCalled' = FALSE
  /\ engineRan' = FALSE
  /\ locals' = NoLocals
  /\ UNCHANGED <<cvars, svars, xvars>>

Next ==
  \/ \E r \in Routes : \E b \in BodiesOf(r) : Receive(r, b)
  \/ ValidatePass
  \/ ValidateFail
  \/ HandleCalculate
  \/ HandleCalculateLoop
  \/ HandleCalculateSend
  \/ HandleCalculateCatch
  \/ HandleAffordability
  \/ HandleCompare
  \/ Finish

Spec == Init /\ [][Next]_vars

(***************************************************************************)
(* Several requests in flight at once.  The handlers are the same code;    *)
(* every invocation has its own req, res and locals, and the steps of the  *)
(* invocations are taken in any order.                                      *)
(***************************************************************************)
Slots == 1..MaxInFlight

\* the activation record of the invocation in a slot: the handler's const
\* and let bindings are made anew for every invocation
FrameOf(slot) == slot

\* the records other invocations have in use
OtherFrames(store, slot) ==
  {k \in DOMAIN store : k # FrameOf(slot) /\ store[k] # NoLocals}

\* ... with amortizationSchedule one array for all invocations: the rows
\* another invocation has pushed are in it
EnterCalculate_SharedSchedule(store, slot, b) ==
  IF OtherFrames(store, slot) = {} THEN CalculateLocals(b)
  ELSE [CalculateLocals(b) EXCEPT
          !.amortizationSchedule =
            store[CHOOSE k \in OtherFrames(store, slot) : TRUE].amortizationSchedule]

\* the locals at entry to the calculate handler: its bindings are made from
\* req.body alone, whatever the records of other invocations hold
EnterCalculate(store, slot, b) == CalculateLocals(b)

\* ... with the locals read from whichever record is in use, as if the
\* handler's bindings were one set of variables for all invocations
FrameAt_AnyInUse(slot) ==
  frames[CHOOSE k \in Slots :
           frames[k] # NoLocals /\ \A j \in Slots : frames[j] # NoLocals => k <= j]

\* the locals an invocation reads: its own
FrameAt(slot) == frames[FrameOf(slot)]

CReceive(slot, q) ==
  /\ calls[slot].pc = "idle"
  /\ calls' = [calls EXCEPT ![slot] = [pc |-> "validate", route |-> q.route,
                                       body |-> q.body, res |-> NoRes]]
  /\ UNCHANGED <<frames, rvars, svars, xvars>>

CValidatePass(slot) ==
  /\ calls[slot].pc = "validate"
  /\ SchemaDetails(calls[slot].route, calls[slot].body) = <<>>
  /\ calls' = [calls EXCEPT ![slot].pc = "handler"]
  /\ UNCHANGED <<frames, rvars, svars, xvars>>

CValidateFail(slot) ==
  /\ calls[slot].pc = "validate"
  /\ SchemaDetails(calls[slot].route, calls[slot].body) # <<>>
  /\ calls' = [calls EXCEPT
                 ![slot].res = [status |-> 400, success |-> FALSE,
                                message |-> "Validation failed",
                                errors |-> ErrorsOf(SchemaDetails(calls[slot].route,
                                                                  calls[slot].body))],
                 ![slot].pc = "sent"]
  /\ UNCHANGED <<frames, rvars, svars, xvars>>

CHandleCalculate(slot) ==
  /\ calls[slot].pc = "handler"
  /\ calls[slot].route = "calculate"
  /\ frames' = [frames EXCEPT
                  ![FrameOf(slot)] = EnterCalculate(frames, slot, calls[slot].body)]
  /\ calls' = [calls EXCEPT ![slot].pc = "loop"]
  /\ UNCHANGED <<rvars, svars, xvars>>

\* one month of the for loop, or the catch block when the push throws
CHandleCalculateLoop(slot) ==
  /\ calls[slot].pc = "loop"
  /\ LoopCondition(FrameAt(slot))
  /\ IF PushThrows(FrameAt(slot))
       THEN /\ calls' = [calls EXCEPT
                           ![slot].res = [status |-> 500, success |-> FALSE,
                                          message |-> "Error calculating mortgage"],
                           ![slot].pc = "sent"]
            /\ UNCHANGED frames
       ELSE /\ frames' = [frames EXCEPT ![FrameOf(slot)] = LoopBody(FrameAt(slot))]
            /\ UNCHANGED calls
  /\ UNCHANGED <<rvars, svars, xvars>>

CHandleCalculateSend(slot) ==
  /\ calls[slot].pc = "loop"
  /\ ~LoopCondition(FrameAt(slot))
  /\ calls' = [calls EXCEPT
                 ![slot].res = [status |-> 200, success |-> TRUE,
                                results |-> CalculateResults(FrameAt(slot))],
                 ![slot].pc = "sent"]
  /\ UNCHANGED <<frames, rvars, svars, xvars>>

CHandleAffordability(slot) ==
  /\ calls[slot].pc = "handler"
  /\ calls[slot].route = "affordability"
  /\ calls' = [calls EXCEPT
                 ![slot].res = [status |-> 200, success |-> TRUE,
                                results |-> Affordability(calls[slot].body)],
                 ![slot].pc = "sent"]
  /\ UNCHANGED <<frames, rvars, svars, xvars>>

CHandleCompare(slot) ==
  /\ calls[slot].pc = "handler"
  /\ calls[slot].route = "compare"
  /\ calls' = [calls EXCEPT
                 ![slot].res = [status |-> 200, success |-> TRUE,
                                results |-> Compare(calls[slot].body)],
                 ![slot].pc = "sent"]
  /\ UNCHANGED <<frames, rvars, svars, xvars>>

\* the response is out and the invocation's objects are dropped
CFinish(slot) ==
  /\ calls[slot].pc = "sent"
  /\ calls' = [calls EXCEPT ![slot] = NoCall]
  /\ frames' = [frames EXCEPT ![FrameOf(slot)] = NoLocals]
  /\ UNCHANGED <<rvars, svars, xvars>>

NextConcurrent ==
  \E slot \in Slots :
    \/ \E q \in ProbeRequests : CReceive(slot, q)
    \/ CValidatePass(slot)
    \/ CValidateFail(slot)
    \/ CHandleCalculate(slot)
    \/ CHandleCalculateLoop(slot)
    \/ CHandleCalculateSend(slot)
    \/ CHandleAffordability(slot)
    \/ CHandleCompare(slot)
    \/ CFinish(slot)

SpecConcurrent == Init /\ [][NextConcurrent]_vars

(***************************************************************************)
(* What the claims speak of.                                                *)
(***************************************************************************)
\* a response of the handler of route r has been produced
Answered(r) == pc = "sent" /\ route = r /\ res.status = 200

\* the value is a number, or the text of one, with the numeric value x
NumEq(j, x) == j.t \in {"number", "string"} /\ Len(j.v) = 1 /\ j.v[1] = x

\* termYears and termMonths of the calculate request at hand
TermYearsOf(b) == ToInt(ToNumber(b.loanTerm))

TermMonthsOf(b) == TermYearsOf(b) * 12

ScheduleOf(r) == r.results.amortizationSchedule

MonthOf(row) == ToInt(ToNumber(row.month))

\* units in the last place of a finite Number
Ulp(x) ==
  IF BitLen(Abs(x.n)) > Precision THEN 2 ^ (BitLen(Abs(x.n)) - Precision) ELSE 1

(***************************************************************************)
(* C1: the schedule of a validated calculate request holds a row for month  *)
(* m of 1..termMonths exactly when m <= 12, m = termMonths or m is a        *)
(* multiple of 12; every retained month appears once, the rows are in       *)
(* strictly increasing month order and the last row is month termMonths.    *)
(***************************************************************************)
C1_RowRetention ==
  Answered("calculate") =>
    LET sch == ScheduleOf(res)
        n == TermMonthsOf(body)
    IN /\ \A m \in 1..n :
            (\E i \in DOMAIN sch : MonthOf(sch[i]) = m)
              <=> (m <= 12 \/ m = n \/ m % 12 = 0)
       /\ \A i \in DOMAIN sch : MonthOf(sch[i]) \in 1..n
       /\ \A i, j \in DOMAIN sch : i < j => MonthOf(sch[i]) < MonthOf(sch[j])
       /\ Len(sch) >= 1
       /\ MonthOf(sch[Len(sch)]) = n

\* a three-year schedule: months 1..12, 24 and 36, with 13..23 and 25..35 left out
C1_Witness ==
  /\ Answered("calculate")
  /\ TermMonthsOf(body) = 36
  /\ Len(ScheduleOf(res)) = 14
  /\ MonthOf(ScheduleOf(res)[13]) = 24

(***************************************************************************)
(* C2: with interestRate = 0 the result of calculate has monthlyPayment =   *)
(* principal / (loanTerm * 12), totalInterest = 0 and totalPayment =        *)
(* principal, for loanTerm = 1 as for any other.                            *)
(***************************************************************************)
C2_ZeroRate ==
  (Answered("calculate") /\ ToNumber(body.interestRate) = Zero) =>
    /\ NumEq(res.results.monthlyPayment,
             FDiv(ToNumber(body.principal), Fl(TermMonthsOf(body))))
    /\ NumEq(res.results.totalInterest, Zero)
    /\ NumEq(res.results.totalPayment, ToNumber(body.principal))

\* term = 1 year, rate = 0: principal / 12 is not exact, 12 payments do not
\* add up to the principal
C2_Witness ==
  /\ Answered("calculate")
  /\ ToNumber(body.interestRate) = Zero
  /\ TermYearsOf(body) = 1
  /\ FMul(ToNumber(res.results.monthlyPayment), Fl(12)) # ToNumber(body.principal)

\* the three amounts of a row are finite numbers
FiniteRow(row) ==
  /\ ToNumber(row.payment).c = "fin"
  /\ ToNumber(row.principalPayment).c = "fin"
  /\ ToNumber(row.interestPayment).c = "fin"

\* principalPayment + interestPayment of a row, as JavaScript adds them
PartsSum(row) == JAdd(row.principalPayment, row.interestPayment)

(***************************************************************************)
(* C3 as stated: in every row principalPayment + interestPayment equals     *)
(* payment, and payment equals the result's monthlyPayment.                 *)
(***************************************************************************)
C3_PartsSumExact ==
  Answered("calculate") =>
    \A i \in DOMAIN ScheduleOf(res) :
      LET row == ScheduleOf(res)[i]
      IN /\ PartsSum(row) = row.payment
         /\ row.payment = res.results.monthlyPayment

(***************************************************************************)
(* C3, amended: in every row payment is the result's monthlyPayment, the    *)
(* same value in every row; principalPayment is payment - interestPayment   *)
(* as floating point computes it, so that when the three are finite         *)
(* principalPayment + interestPayment is within one unit in the last place  *)
(* of the larger of payment and principalPayment, not always equal to       *)
(* payment.                                                                 *)
(***************************************************************************)
C3_PartsSumRounded ==
  Answered("calculate") =>
    \A i \in DOMAIN ScheduleOf(res) :
      LET row == ScheduleOf(res)[i]
      IN /\ row.payment = res.results.monthlyPayment
         /\ row.principalPayment = JSub(row.payment, row.interestPayment)
         /\ FiniteRow(row) =>
              /\ ToNumber(PartsSum(row)).c = "fin"
              /\ Abs(ToNumber(PartsSum(row)).n - ToNumber(row.payment).n)
                   <= IF Ulp(ToNumber(row.principalPayment)) > Ulp(ToNumber(row.payment))
                        THEN Ulp(ToNumber(row.principalPayment))
                        ELSE Ulp(ToNumber(row.payment))

\* a row of finite amounts whose two parts do not add up to the payment
C3_Witness ==
  /\ Answered("calculate")
  /\ \E i \in DOMAIN ScheduleOf(res) :
       LET row == ScheduleOf(res)[i]
       IN /\ FiniteRow(row)
          /\ FLt(Zero, ToNumber(row.interestPayment))
          /\ PartsSum(row) # row.payment

\* the last row of the schedule
FinalRow(r) == ScheduleOf(r)[Len(ScheduleOf(r))]

(***************************************************************************)
(* C4: the final schedule row, month = termMonths, of every validated       *)
(* calculate request reports remainingBalance exactly 0.                    *)
(***************************************************************************)
C4_FinalBalanceZero ==
  Answered("calculate") =>
    /\ MonthOf(FinalRow(res)) = TermMonthsOf(body)
    /\ NumEq(FinalRow(res).remainingBalance, Zero)

(***************************************************************************)
(* C5: every row of the schedule of a validated calculate request reports   *)
(* a remainingBalance that is a number >= 0.                                *)
(***************************************************************************)
C5_BalanceNonNegative ==
  Answered("calculate") =>
    \A i \in DOMAIN ScheduleOf(res) :
      FLe(Zero, ToNumber(ScheduleOf(res)[i].remainingBalance))

\* what the interface asks of each field of a body
FieldKinds(r) ==
  CASE r = "calculate" ->
         [principal |-> "positive", interestRate |-> "nonNegative",
          loanTerm |-> "positiveInteger"]
    [] r = "affordability" ->
         [annualIncome |-> "positive", monthlyDebts |-> "nonNegative",
          downPayment |-> "nonNegative", interestRate |-> "nonNegative",
          loanTerm |-> "positiveInteger", propertyTaxRate |-> "nonNegative",
          insuranceRate |-> "nonNegative"]
    [] r = "compare" ->
         [amount |-> "positive", interestRate |-> "nonNegative",
          term |-> "positiveInteger", type |-> "text",
          points |-> "nonNegative", fees |-> "nonNegative"]

\* the value is missing, or is no number, or is a number the kind forbids
BadValue(kind, value) ==
  \/ value.t = "undefined"
  \/ /\ kind # "text"
     /\ \/ value.t = "string" /\ Len(value.v) # 1
        \/ /\ value.t = "number"
           /\ \/ FLt(value.v[1], Zero)
              \/ kind \in {"positive", "positiveInteger"} /\ value.v[1] = Zero
              \/ kind = "positiveInteger" /\ ~IsInteger(value.v[1])

\* the paths of the bad fields of body b sent to route r
BadPaths(r, b) ==
  IF r \in {"calculate", "affordability"}
    THEN {k \in DOMAIN FieldKinds(r) : BadValue(FieldKinds(r)[k], b[k])}
  ELSE IF b.loanOptions.t = "undefined" THEN {"loanOptions"}
  ELSE {"loanOptions." \o ToString(ik[1] - 1) \o "." \o ik[2] :
          ik \in {x \in (DOMAIN b.loanOptions.items) \X (DOMAIN FieldKinds(r)) :
                    BadValue(FieldKinds(r)[x[2]], b.loanOptions.items[x[1]][x[2]])}}

\* validation of the request at hand is over
Validated == pc \notin {"idle", "validate"}

(***************************************************************************)
(* C6: a request to calculate, affordability or compare with a missing,     *)
(* non-numeric or negative field, a non-positive principal, annualIncome,   *)
(* amount or term, or a non-integer term, is answered with status 400,      *)
(* success false and an errors object with a message under the path of      *)
(* every such field; next is not called and the handler never runs.         *)
(***************************************************************************)
C6_InvalidRejected ==
  (Validated /\ BadPaths(route, body) # {}) =>
    /\ pc = "sent"
    /\ res.status = 400
    /\ res.success = FALSE
    /\ \A path \in BadPaths(route, body) :
         path \in DOMAIN res.errors /\ res.errors[path] # ""
    /\ ~nextCalled
    /\ ~engineRan

\* a compare request rejected for fields of its second option, a zero amount
\* and a negative term among them
C6_Witness ==
  /\ pc = "sent"
  /\ route = "compare"
  /\ res.status = 400
  /\ body.loanOptions.t = "array"
  /\ Len(body.loanOptions.items) = 2
  /\ BadPaths(route, body) \cap {"loanOptions.0.amount", "loanOptions.0.term"} = {}
  /\ {"loanOptions.1.amount", "loanOptions.1.term"} \subseteq BadPaths(route, body)
  /\ NumEq(body.loanOptions.items[2].amount, Zero)
  /\ res.errors["loanOptions.1.amount"] = "Loan amount must be a positive number"

\* the number of loan options of the compare request at hand (-1: no array)
OptionCount ==
  IF body.loanOptions.t = "array" THEN Len(body.loanOptions.items) ELSE -1

(***************************************************************************)
(* C7: the compare handler runs only for requests whose loanOptions array   *)
(* has 1 to 3 elements; one with 0 or with 4 or more is answered 400 by     *)
(* the validator and the per-option computation does not run.               *)
(***************************************************************************)
C7_OptionCount ==
  (route = "compare" /\ Validated) =>
    /\ (engineRan \/ nextCalled) => OptionCount \in 1..3
    /\ (OptionCount = 0 \/ OptionCount >= 4) =>
         /\ pc = "sent"
         /\ res.status = 400
         /\ "loanOptions" \in DOMAIN res.errors
         /\ ~engineRan

\* four options, each of them valid, answered 400
C7_Witness ==
  /\ route = "compare"
  /\ pc = "sent"
  /\ OptionCount = 4
  /\ BadPaths(route, body) = {}
  /\ res.status = 400
  /\ DOMAIN res.errors = {"loanOptions"}

\* the fields a loan option is sent with
OptionFields == {"amount", "interestRate", "term", "type", "points", "fees"}

(***************************************************************************)
(* C8: the results of a validated compare request have the length of        *)
(* loanOptions, and results[i] carries the fields of loanOptions[i] for     *)
(* every i: input order, whatever the totalCost values.                     *)
(***************************************************************************)
C8_SameOrder ==
  Answered("compare") =>
    /\ Len(res.results) = Len(body.loanOptions.items)
    /\ \A i \in DOMAIN res.results :
         /\ \A f \in OptionFields : res.results[i][f] = body.loanOptions.items[i][f]
         /\ res.results[i] = CompareOption(body.loanOptions.items[i])

\* two different options answered in input order, the costlier one first
C8_Witness ==
  /\ Answered("compare")
  /\ Len(res.results) = 2
  /\ body.loanOptions.items[1] # body.loanOptions.items[2]
  /\ res.results[1].amount = body.loanOptions.items[1].amount
  /\ res.results[1].totalCost.t = "number"
  /\ res.results[2].totalCost.t = "number"
  /\ FLt(ToNumber(res.results[2].totalCost), ToNumber(res.results[1].totalCost))

\* the four amounts of a loan option as numbers
CostOf(option, monthlyPayment) ==
  LET amount == ToNumber(option.amount)
      totalInterest ==
        FSub(FMul(ToNumber(monthlyPayment), FMul(ToNumber(option.term), Fl(12))), amount)
      pointsCost == FMul(FDiv(ToNumber(option.points), Fl(100)), amount)
  IN [totalInterest |-> totalInterest,
      pointsCost |-> pointsCost,
      totalCost |-> FAdd(FAdd(FAdd(amount, totalInterest), pointsCost),
                         ToNumber(option.fees))]

(***************************************************************************)
(* C9: for every validated loan option compare returns totalInterest =      *)
(* monthlyPayment * (term * 12) - amount and totalCost = amount +           *)
(* totalInterest + (points / 100) * amount + fees.                          *)
(***************************************************************************)
C9_CostFormulas ==
  Answered("compare") =>
    \A i \in DOMAIN res.results :
      LET cost == CostOf(body.loanOptions.items[i], res.results[i].monthlyPayment)
      IN /\ NumEq(res.results[i].totalInterest, cost.totalInterest)
         /\ NumEq(res.results[i].totalCost, cost.totalCost)

\* options i and j of the request are the same but for points: 0 in i, more in j
PointsPair(i, j) ==
  /\ i \in DOMAIN body.loanOptions.items
  /\ j \in DOMAIN body.loanOptions.items
  /\ body.loanOptions.items[i]
       = [body.loanOptions.items[j] EXCEPT !.points = body.loanOptions.items[i].points]
  /\ ToNumber(body.loanOptions.items[i].points) = Zero
  /\ FLt(Zero, ToNumber(body.loanOptions.items[j].points))

\* amount and fees of the option are numbers, and so is its totalCost
NumberTyped(option) == option.amount.t = "number" /\ option.fees.t = "number"

\* totalCost of result j less totalCost of result i less the cost of j's points
CostGap(i, j) ==
  ToNumber(res.results[j].totalCost).n - ToNumber(res.results[i].totalCost).n
    - ToNumber(PointsCost(body.loanOptions.items[j].points,
                          body.loanOptions.items[j].amount)).n

(***************************************************************************)
(* C10 as stated: of two options of one request that differ only in points, *)
(* 0 and p > 0, the results have equal monthlyPayment and equal             *)
(* totalInterest, and the totalCost with points exceeds the other by        *)
(* exactly (p / 100) * amount.                                              *)
(***************************************************************************)
C10_PointsExact ==
  Answered("compare") =>
    \A i, j \in DOMAIN res.results :
      (PointsPair(i, j) /\ NumberTyped(body.loanOptions.items[i])
         /\ ToNumber(res.results[i].totalCost).c = "fin"
         /\ ToNumber(res.results[j].totalCost).c = "fin") =>
        /\ res.results[i].monthlyPayment = res.results[j].monthlyPayment
        /\ res.results[i].totalInterest = res.results[j].totalInterest
        /\ CostGap(i, j) = 0

(***************************************************************************)
(* C10, amended: of two options of one request that differ only in points,  *)
(* 0 and p > 0, the results have equal monthlyPayment and equal             *)
(* totalInterest; when amount and fees are numbers and both totalCost are   *)
(* finite, the totalCost with points is not less than the other, and their  *)
(* difference is (p / 100) * amount up to floating-point rounding, within   *)
(* two units in the last place of the totalCost with points.                *)
(***************************************************************************)
C10_PointsRounded ==
  Answered("compare") =>
    \A i, j \in DOMAIN res.results :
      PointsPair(i, j) =>
        /\ res.results[i].monthlyPayment = res.results[j].monthlyPayment
        /\ res.results[i].totalInterest = res.results[j].totalInterest
        /\ (NumberTyped(body.loanOptions.items[i])
              /\ ToNumber(res.results[i].totalCost).c = "fin"
              /\ ToNumber(res.results[j].totalCost).c = "fin") =>
             /\ FLe(ToNumber(res.results[i].totalCost), ToNumber(res.results[j].totalCost))
             /\ Abs(CostGap(i, j)) <= 2 * Ulp(ToNumber(res.results[j].totalCost))

\* a pair with number amounts whose totalCost differ by other than the cost
\* of the points
C10_Witness ==
  /\ Answered("compare")
  /\ \E i, j \in DOMAIN res.results :
       /\ PointsPair(i, j)
       /\ NumberTyped(body.loanOptions.items[i])
       /\ ToNumber(res.results[i].totalCost).c = "fin"
       /\ ToNumber(res.results[j].totalCost).c = "fin"
       /\ CostGap(i, j) # 0

\* availableForHousing as the affordability handler computes it from the body
AvailableOf(b) ==
  ToNumber(AvailableForHousing(JDiv(b.annualIncome, Num(Fl(MonthsPerYear))),
                               b.monthlyDebts))

(***************************************************************************)
(* C11: for every validated affordability request whose availableForHousing *)
(* is >= 0 the returned debtToIncomeRatio is at most 36, in the zero-rate   *)
(* branch and in the other, whatever downPayment, propertyTaxRate and       *)
(* insuranceRate are (stated here for the finite ratios only).              *)
(***************************************************************************)
C11_DtiAtMost36 ==
  (Answered("affordability") /\ FLe(Zero, AvailableOf(body))
     /\ res.results.debtToIncomeRatio.t = "number"
     /\ ToNumber(res.results.debtToIncomeRatio).c = "fin") =>
    FLe(ToNumber(res.results.debtToIncomeRatio), Fl(36))

\* loanTerm * 12 of the affordability request at hand, as a Number
TermMonthsNumber(b) == FMul(ToNumber(b.loanTerm), Fl(12))

(***************************************************************************)
(* C12: for every validated affordability request with interestRate = 0,    *)
(* maxHomePrice = min(0.28 * I, 0.36 * I - monthlyDebts) * (loanTerm * 12)  *)
(* + downPayment with I = annualIncome / 12, and principalAndInterest =     *)
(* (maxHomePrice - downPayment) / (loanTerm * 12).                          *)
(***************************************************************************)
C12_ZeroRateSizing ==
  (Answered("affordability") /\ ToNumber(body.interestRate) = Zero) =>
    LET maxHomePrice == FAdd(FMul(AvailableOf(body), TermMonthsNumber(body)),
                             ToNumber(body.downPayment))
    IN /\ NumEq(res.results.maxHomePrice, maxHomePrice)
       /\ NumEq(res.results.paymentBreakdown.principalAndInterest,
                FDiv(FSub(maxHomePrice, ToNumber(body.downPayment)),
                     TermMonthsNumber(body)))

\* 0.36 * annualIncome / 12 less monthlyDebts, in floating point
DebtRoom(b) ==
  FSub(FMul(FDiv(ToNumber(b.annualIncome), Fl(12)), FlQ(36, 100)),
       ToNumber(b.monthlyDebts))

\* a validated affordability request whose monthlyDebts are above 0.36 *
\* annualIncome / 12 has been answered
OverIndebted ==
  /\ route = "affordability"
  /\ pc = "sent"
  /\ nextCalled
  /\ FLt(DebtRoom(body), Zero)

\* downPayment was sent as a number, maxHomePrice and principalAndInterest
\* are finite numbers
PlainSizing ==
  /\ body.downPayment.t = "number"
  /\ res.results.maxHomePrice.t = "number"
  /\ ToNumber(res.results.maxHomePrice).c = "fin"
  /\ ToNumber(res.results.paymentBreakdown.principalAndInterest).c = "fin"

(***************************************************************************)
(* C13 as stated: a validated affordability request with monthlyDebts above *)
(* 0.36 * annualIncome / 12 succeeds, maxHomePrice is less than downPayment *)
(* and principalAndInterest is negative.                                    *)
(***************************************************************************)
C13_NegativeStrict ==
  (OverIndebted /\ res.status = 200 /\ PlainSizing) =>
    /\ FLt(ToNumber(res.results.maxHomePrice), ToNumber(body.downPayment))
    /\ FLt(ToNumber(res.results.paymentBreakdown.principalAndInterest), Zero)

(***************************************************************************)
(* C13, amended: such a request succeeds (status 200, success true) and     *)
(* nothing is clamped; when downPayment is a number and maxHomePrice and    *)
(* principalAndInterest are finite, maxHomePrice <= downPayment and         *)
(* principalAndInterest <= 0, with equality only where rounding loses the   *)
(* negative amount: in the zero-rate branch maxHomePrice < downPayment as   *)
(* soon as |availableForHousing * loanTerm * 12| is at least one unit in    *)
(* the last place of downPayment.                                           *)
(***************************************************************************)
C13_NegativePassedThrough ==
  OverIndebted =>
    /\ res.status = 200
    /\ res.success = TRUE
    /\ PlainSizing =>
         /\ FLe(ToNumber(res.results.maxHomePrice), ToNumber(body.downPayment))
         /\ FLe(ToNumber(res.results.paymentBreakdown.principalAndInterest), Zero)
         /\ (/\ ToNumber(body.interestRate) = Zero
             /\ FMul(DebtRoom(body), TermMonthsNumber(body)).c = "fin"
             /\ Abs(FMul(DebtRoom(body), TermMonthsNumber(body)).n)
                  >= Ulp(ToNumber(body.downPayment)))
            => FLt(ToNumber(res.results.maxHomePrice), ToNumber(body.downPayment))

\* an over-indebted request answered with a maxHomePrice below the
\* downPayment and a negative principalAndInterest
C13_Witness ==
  /\ OverIndebted
  /\ res.status = 200
  /\ PlainSizing
  /\ FLt(ToNumber(res.results.maxHomePrice), ToNumber(body.downPayment))
  /\ FLt(ToNumber(res.results.paymentBreakdown.principalAndInterest), Zero)


(***************************************************************************)
(* The application assembled by server.js: a request goes down the stack   *)
(* of app.use and app.get layers in the order they were added, until a     *)
(* layer answers it.                                                        *)
(***************************************************************************)
\* a path, segment by segment: /api/users is <<"api", "users">>
IsPrefix(prefix, path) ==
  Len(prefix) <= Len(path) /\ SubSeq(path, 1, Len(prefix)) = prefix

\* app.use(prefix, router)
Mount(prefix, router) == [kind |-> "router", prefix |-> prefix, router |-> router]

\* the layers added from the first app.use of a router on
Stack ==
  << Mount(<<"api", "properties">>, "propertyRoutes"),
     Mount(<<"api", "users">>, "userRoutes"),
     Mount(<<"api", "favorites">>, "favoriteRoutes"),
     Mount(<<"api", "messages">>, "messageRoutes"),
     Mount(<<"api", "agents">>, "agentRoutes"),
     Mount(<<"api", "admin">>, "adminRoutes"),
     Mount(<<"api", "upload">>, "uploadRoutes"),
     [kind |-> "get", path |-> <<"mortgage">>],
     [kind |-> "errorLogger"],
     [kind |-> "static"],
     [kind |-> "index"],
     [kind |-> "notFound"] >>

\* the paths the mortgage endpoints are posted to, bare and under /api
MortgagePaths ==
  {<<"mortgage", r>> : r \in Routes} \cup {<<"api", "mortgage", r>> : r \in Routes}

ServerPaths ==
  MortgagePaths
  \cup {<<"mortgage">>, <<"api", "properties">>, <<"api", "users", "login">>,
        <<"assets", "app.js">>}

\* the body of the probe requests that validation lets through, by route
ValidProbes == {q \in ProbeRequests : SchemaDetails(q.route, q.body) = <<>>}

\* the bodies sent to a path: a mortgage endpoint is sent a body of its own
\* route, other paths any
BodiesTo(path) ==
  {q.body : q \in {v \in ValidProbes : path \in MortgagePaths => v.route = path[Len(path)]}}

ServerRequests ==
  UNION {{[method |-> m, path |-> path, body |-> b] :
            m \in {"GET", "POST"}, b \in BodiesTo(path)} : path \in ServerPaths}

\* the layer the request is at
Layer == Stack[layer]

InFlight == request # NoBody /\ response = NoRes /\ layer \in 1..Len(Stack)

\* a request arrives and is handed to the first layer
SReceive(q) ==
  /\ request = NoBody
  /\ request' = q
  /\ layer' = 1
  /\ response' = NoRes
  /\ UNCHANGED <<production, rvars, cvars, xvars>>

\* app.use(prefix, router): the prefix matches and a route of the router
\* answers
SRouterAnswers ==
  /\ InFlight
  /\ Layer.kind = "router"
  /\ IsPrefix(Layer.prefix, request.path)
  /\ response' = [status |-> 200, router |-> Layer.router]
  /\ UNCHANGED <<request, layer, production, rvars, cvars, xvars>>

\* the layer does not take the request, which goes on to the next one: a
\* router whose prefix does not match or that has no route for it; app.get
\* of another method or path; the error logger, which only sees errors;
\* the two layers that are added in production only
SNext ==
  /\ InFlight
  /\ \/ Layer.kind = "router"
     \/ Layer.kind = "get" /\ ~(request.method = "GET" /\ request.path = Layer.path)
     \/ Layer.kind = "errorLogger"
     \/ Layer.kind = "static" /\ ~(production /\ request.method = "GET"
                                    /\ request.path = <<"assets", "app.js">>)
     \/ Layer.kind = "index" /\ ~(production /\ request.method = "GET")
  /\ layer' = layer + 1
  /\ UNCHANGED <<request, response, production, rvars, cvars, xvars>>

\* app.get('/mortgage', ...)
SGetMortgage ==
  /\ InFlight
  /\ Layer.kind = "get"
  /\ request.method = "GET"
  /\ request.path = Layer.path
  /\ response' = [status |-> 200, success |-> TRUE,
                  message |-> "Mortgage calculator API endpoint"]
  /\ UNCHANGED <<request, layer, production, rvars, cvars, xvars>>

\* in production: express.static serves a file of dist, app.get('*') serves
\* index.html
SServeFile ==
  /\ InFlight
  /\ production
  /\ request.method = "GET"
  /\ \/ Layer.kind = "static" /\ request.path = <<"assets", "app.js">>
     \/ Layer.kind = "index"
  /\ response' = [status |-> 200, file |-> Layer.kind]
  /\ UNCHANGED <<request, layer, production, rvars, cvars, xvars>>

\* app.use('*', ...): res.status(404).json({success: false, message})
SNotFound ==
  /\ InFlight
  /\ Layer.kind = "notFound"
  /\ response' = [status |-> 404, success |-> FALSE,
                  message |-> <<"Route ", request.path, " not found">>]
  /\ UNCHANGED <<request, layer, production, rvars, cvars, xvars>>

\* the response is out
SFinish ==
  /\ response # NoRes
  /\ request' = NoBody
  /\ layer' = 0
  /\ response' = NoRes
  /\ UNCHANGED <<production, rvars, cvars, xvars>>

\* the application starts with NODE_ENV set to 'production' or not
InitServer ==
  /\ pc = "idle"
  /\ route = "none"
  /\ body = NoBody
  /\ res = NoRes
  /\ nextCalled = FALSE
  /\ engineRan = FALSE
  /\ locals = NoLocals
  /\ NoCalls
  /\ request = NoBody
  /\ layer = 0
  /\ response = NoRes
  /\ production \in BOOLEAN
  /\ Rest

NextServer ==
  \/ \E q \in ServerRequests : SReceive(q)
  \/ SRouterAnswers
  \/ SNext
  \/ SGetMortgage
  \/ SServeFile
  \/ SNotFound
  \/ SFinish

SpecServer == InitServer /\ [][NextServer]_vars

\* the request in a slot
RequestOf(slot) == Request(calls[slot].route, calls[slot].body)

Sent(slot) == calls[slot].pc = "sent"

\* the answer of the calculate handler entered with the locals l and run
\* without another step of anything in between
RECURSIVE WalkAlone(_)
WalkAlone(l) ==
  IF ~LoopCondition(l)
    THEN [status |-> 200, success |-> TRUE, results |-> CalculateResults(l)]
  ELSE IF PushThrows(l)
    THEN [status |-> 500, success |-> FALSE, message |-> "Error calculating mortgage"]
  ELSE WalkAlone(LoopBody(l))

\* the response to a request that is handled alone
Alone(q) ==
  IF SchemaDetails(q.route, q.body) # <<>>
    THEN [status |-> 400, success |-> FALSE, message |-> "Validation failed",
          errors |-> ErrorsOf(SchemaDetails(q.route, q.body))]
  ELSE IF q.route = "calculate" THEN WalkAlone(CalculateLocals(q.body))
  ELSE IF q.route = "affordability"
    THEN [status |-> 200, success |-> TRUE, results |-> Affordability(q.body)]
  ELSE [status |-> 200, success |-> TRUE, results |-> Compare(q.body)]

(***************************************************************************)
(* C14: two handlings of the same request body by calculate, affordability *)
(* or compare give the same response, whatever other requests were handled *)
(* before or are handled meanwhile; and once no request is in flight       *)
(* nothing of the requests handled is left: no state survives a request.   *)
(***************************************************************************)
C14_SameBodySameResults ==
  /\ \A s, t \in Slots :
       Sent(s) /\ Sent(t) /\ RequestOf(s) = RequestOf(t) => calls[s].res = calls[t].res
  /\ (\A s \in Slots : calls[s].pc = "idle") => NoCalls

\* the same validated calculate request answered twice, the answers at hand
C14_Witness ==
  \E s, t \in Slots :
    /\ s # t
    /\ Sent(s) /\ Sent(t)
    /\ RequestOf(s) = RequestOf(t)
    /\ calls[s].route = "calculate"
    /\ calls[s].res.status = 200
    /\ Len(ScheduleOf(calls[s].res)) = 12

(***************************************************************************)
(* C15: with several requests in flight and their steps taken in any order *)
(* every response is the response the request gets when handled alone.     *)
(***************************************************************************)
C15_AsWhenAlone ==
  \A s \in Slots : Sent(s) => calls[s].res = Alone(RequestOf(s))

\* a calculate request is answered while another calculate request, with a
\* different body, is in the middle of its loop
C15_Witness ==
  \E s, t \in Slots :
    /\ Sent(s)
    /\ calls[s].route = "calculate"
    /\ calls[s].res.status = 200
    /\ calls[t].pc = "loop"
    /\ calls[t].body # calls[s].body
    /\ FrameAt(t).month \in 2..12


\* a POST with a valid body to one of the mortgage endpoints
MortgagePost ==
  /\ request # NoBody
  /\ request.method = "POST"
  /\ request.path \in MortgagePaths
  /\ SchemaDetails(request.path[Len(request.path)], request.body) = <<>>

(***************************************************************************)
(* C16: in the application assembled by server.js a POST with a valid body *)
(* to the calculate, affordability or compare endpoint is answered by the  *)
(* engine's handler with success true and results, not by the 404 handler. *)
(***************************************************************************)
C16_RoutedToEngine ==
  MortgagePost /\ response # NoRes =>
    /\ response.status = 200
    /\ "results" \in DOMAIN response
    /\ response.success


(***************************************************************************)
(* C17: every calculate request that passes validation is answered with    *)
(* status 200, success true and results; the catch block with its 500      *)
(* 'Error calculating mortgage' is never taken for it.                      *)
(***************************************************************************)
C17_NoErrorPath ==
  pc = "sent" /\ route = "calculate" /\ nextCalled =>
    /\ res.status = 200
    /\ res.success
    /\ "results" \in DOMAIN res


\* the sum of the principal portions of the first m rows, as JavaScript adds
\* them one after another
RECURSIVE PrincipalSum(_, _)
PrincipalSum(rows, m) ==
  IF m = 1 THEN rows[1].principalPayment
  ELSE JAdd(PrincipalSum(rows, m - 1), rows[m].principalPayment)

\* the months of the first year of a schedule: their rows are all in it
FirstYear(rows) == {m \in 1..Len(rows) : m <= MonthsPerYear}

(***************************************************************************)
(* C18: the walk of a validated calculate request runs from month 1 to     *)
(* month termMonths, exactly termMonths passes, starting from the          *)
(* principal; the remainingBalance reported for month m is max(0,          *)
(* principal - the sum of the principal portions of months 1..m) (checked  *)
(* on the months of the first year, whose portions are all in the          *)
(* response).                                                               *)
(***************************************************************************)
C18_WalkFromPrincipal ==
  /\ pc = "loop" => locals.month \in 1..(TermMonthsOf(body) + 1)
  /\ pc = "sent" /\ route = "calculate" /\ nextCalled =>
       /\ res.status = 200
       /\ MonthOf(FinalRow(res)) = TermMonthsOf(body)
       /\ \A m \in FirstYear(ScheduleOf(res)) :
            ScheduleOf(res)[m].remainingBalance
              = MathMax(Num(Fl(0)),
                        JSub(body.principal, PrincipalSum(ScheduleOf(res), m)))


\* the running balance after month m: the principal less the principal
\* portions of the rows 1..m, one subtraction after another
RECURSIVE Running(_, _, _)
Running(principal, rows, m) ==
  IF m = 0 THEN principal
  ELSE JSub(Running(principal, rows, m - 1), rows[m].principalPayment)

\* a loop state of the first year: every month so far has its row
InFirstYear ==
  /\ pc = "loop"
  /\ locals.month <= MonthsPerYear + 1
  /\ Len(locals.amortizationSchedule) = locals.month - 1

\* the row of month m reports 0 where the running balance is below 0
Clamped(principal, rows, m) ==
  /\ FLt(ToNumber(Running(principal, rows, m)), Zero)
  /\ rows[m].remainingBalance = Num(Fl(0))

(***************************************************************************)
(* C19: clamping the reported remainingBalance leaves the running balance  *)
(* alone: through the first year, whose rows are all reported, the running *)
(* balance is the principal less the principal portions so far, clamped    *)
(* rows or not, and the interest and principal portions of every month are *)
(* computed from the running balance the month before left, not from the   *)
(* value its row reports.                                                   *)
(***************************************************************************)
C19_ClampLeavesBalance ==
  InFirstYear =>
    /\ locals.remainingBalance
         = Running(body.principal, locals.amortizationSchedule, locals.month - 1)
    /\ \A m \in 1..Len(locals.amortizationSchedule) :
         /\ locals.amortizationSchedule[m].interestPayment
              = JMul(Running(body.principal, locals.amortizationSchedule, m - 1),
                     locals.monthlyInterestRate)
         /\ locals.amortizationSchedule[m].principalPayment
              = JSub(locals.monthlyPayment,
                     locals.amortizationSchedule[m].interestPayment)

\* a month's row reports the clamped 0 and the month after has been walked
C19_Witness ==
  /\ InFirstYear
  /\ \E m \in 1..(Len(locals.amortizationSchedule) - 1) :
       /\ Clamped(body.principal, locals.amortizationSchedule, m)
       /\ locals.amortizationSchedule[m + 1].interestPayment # Num(Fl(0))


\* the objects a handler reads its fields from: the body, or the loan options
ObjectsRead(r, b) ==
  IF r = "compare" THEN {b.loanOptions.items[i] : i \in DOMAIN b.loanOptions.items}
  ELSE {b}

\* the object has the keys of the schema only, its numeric ones as numbers
AsTheSchemaSays(r, object) ==
  /\ DOMAIN object = DOMAIN FieldKinds(r)
  /\ \A k \in DOMAIN FieldKinds(r) : FieldKinds(r)[k] # "text" => object[k].t = "number"

(***************************************************************************)
(* C20: when a handler runs, what it reads from the request has only the   *)
(* keys of the schema and every numeric field of it is a number: numeric   *)
(* strings and unknown keys were rejected or converted and stripped, and   *)
(* no result of compare is string-typed or carries an unknown key.          *)
(***************************************************************************)
C20_NumbersOnly ==
  /\ engineRan => \A object \in ObjectsRead(route, body) : AsTheSchemaSays(route, object)
  /\ Answered("compare") =>
       \A i \in DOMAIN res.results :
         /\ res.results[i].totalCost.t = "number"
         /\ DOMAIN res.results[i]
              = OptionKeys \cup {"monthlyPayment", "totalInterest", "totalCost"}


(***************************************************************************)
(* The rate limiter: every instance rateLimit() creates shares the two     *)
(* maps of its module, requestCounts and blockedIPs, and starts a cleanup  *)
(* timer of its own.  Time is counted in minutes.                           *)
(***************************************************************************)
\* 60 * 1000 milliseconds
Minute == 1

\* the last minute of the clock
MaxTime == 6

\* the most requests sent
MaxArrivals == 7

\* the options of an instance created alone: windows and block durations of
\* one or a few minutes, limits of one or two requests
LoneOptions ==
  {[windowMs |-> w * Minute, maxRequests |-> m, blockDuration |-> b * Minute] :
     w \in {1, 2}, m \in {1, 2}, b \in {1, 3}}

authRateLimit ==
  [windowMs |-> 15 * Minute, maxRequests |-> 10, blockDuration |-> 60 * Minute]

apiRateLimit ==
  [windowMs |-> Minute, maxRequests |-> 100, blockDuration |-> 15 * Minute]

publicRateLimit ==
  [windowMs |-> Minute, maxRequests |-> 200, blockDuration |-> 5 * Minute]

\* the addresses requests come from
Clients == {"10.0.0.1"}

Login == [method |-> "POST", url |-> <<"api", "users", "login">>]

\* the endpoints requests are sent to
Endpoints == {Login, [method |-> "GET", url |-> <<"api", "properties">>]}

\* `${ip}:${req.method}:${req.originalUrl}`
KeyOf(ip, e) == <<ip, e.method, e.url>>

\* map.delete of every key the test names
Without(map, stale) == [k \in DOMAIN map \ stale |-> map[k]]

\* map.set(key, value)
MapSet(map, key, value) == [k \in DOMAIN map \cup {key} |-> IF k = key THEN value ELSE map[k]]

\* a request on its way down the limiter layers: the two maps, the instance
\* that answered 429 (0: none did) and the instance that blocked the address
Going(counts, blocked) == [counts |-> counts, blocked |-> blocked, refusedBy |-> 0, blockedBy |-> 0]

\* requestCounts.get(key) || { count: 0, timestamp: now }
DataOf(counts, key, t) ==
  IF key \in DOMAIN counts THEN counts[key] ELSE [count |-> 0, timestamp |-> t]

\* Reset count if window has passed
WindowReset(l, data, t) ==
  IF t - data.timestamp > l.windowMs THEN [count |-> 0, timestamp |-> t] ELSE data

\* Check if rate limit exceeded: block the IP and answer 429, or next()
LimitCheck_OneMore(l, i, st, ip, key, t) ==
  IF st.counts[key].count > l.maxRequests + 1
  THEN [st EXCEPT !.blocked = MapSet(st.blocked, ip, t), !.refusedBy = i, !.blockedBy = i]
  ELSE st

LimitCheck(l, i, st, ip, key, t) ==
  IF st.counts[key].count > l.maxRequests
  THEN [st EXCEPT !.blocked = MapSet(st.blocked, ip, t), !.refusedBy = i, !.blockedBy = i]
  ELSE st

\* Increment request count, and requestCounts.set(key, data)
LimitCount(l, i, st, ip, key, t, data) ==
  LimitCheck(l, i, [st EXCEPT !.counts = MapSet(st.counts, key, [data EXCEPT !.count = @ + 1])],
             ip, key, t)

\* the middleware of instance i
Limit(l, i, st, ip, key, t) ==
  IF ip \in DOMAIN st.blocked
  THEN [st EXCEPT !.refusedBy = i]
  ELSE LimitCount(l, i, st, ip, key, t, WindowReset(l, DataOf(st.counts, key, t), t))

\* app.use(path, limiter): the layer takes the requests under its path
Takes(m, e) == IsPrefix(m.path, e.url)

\* the request goes down the layers from layer n on until one answers it
RECURSIVE RunLayers(_, _, _, _, _)
RunLayers(n, st, ip, e, t) ==
  IF n > Len(mounted) \/ st.refusedBy # 0 THEN st
  ELSE IF Takes(mounted[n], e)
       THEN RunLayers(n + 1, Limit(limiters[mounted[n].limiter], mounted[n].limiter, st, ip,
                                   KeyOf(ip, e), t), ip, e, t)
       ELSE RunLayers(n + 1, st, ip, e, t)

\* the window of the first layer, which every request goes through
FirstWindow == limiters[mounted[1].limiter].windowMs

\* the passes no older than the first layer's window
Recent(times, t) == SelectSeq(times, LAMBDA at : t - at <= FirstWindow)

\* a block set is in force until the blockDuration of the instance that set
\* it has elapsed
InForce(block, t) == t - block.at < limiters[block.by].blockDuration

\* the requests to the key answered so far, up to the first one answered
\* with 429, with one more answer
HandledNext(key, passed) ==
  IF key \in DOMAIN handled
  THEN IF handled[key].refused THEN handled[key]
       ELSE [n |-> handled[key].n + 1, refused |-> ~passed]
  ELSE [n |-> 1, refused |-> ~passed]

PassesNext(key, passed) ==
  IF passed
  THEN Append(IF key \in DOMAIN passes THEN passes[key] ELSE <<>>, now)
  ELSE IF key \in DOMAIN passes THEN passes[key] ELSE <<>>

\* the layers have run: the maps are as they left them
Respond(ip, e, st) ==
  /\ requestCounts' = st.counts
  /\ blockedIPs' = st.blocked
  /\ arrivals' = arrivals + 1
  /\ handled' = MapSet(handled, KeyOf(ip, e), HandledNext(KeyOf(ip, e), st.refusedBy = 0))
  /\ passes' = MapSet(passes, KeyOf(ip, e), PassesNext(KeyOf(ip, e), st.refusedBy = 0))
  /\ blockSet' = IF st.blockedBy # 0
                 THEN MapSet(blockSet, ip, [by |-> st.blockedBy, at |-> now])
                 ELSE blockSet

\* a request arrives and goes down the limiter layers in one turn
Arrive(ip, e) ==
  /\ limiters # <<>>
  /\ arrivals < MaxArrivals
  /\ Respond(ip, e, RunLayers(1, Going(requestCounts, blockedIPs), ip, e, now))
  /\ UNCHANGED <<now, limiters, due, mounted, exceptLimiter>>

\* the setInterval callback of instance i: Clean up old entries
Cleanup(i) ==
  /\ i \in DOMAIN limiters
  /\ now = due[i]
  /\ requestCounts' =
       Without(requestCounts,
               {k \in DOMAIN requestCounts :
                  now - requestCounts[k].timestamp > limiters[i].windowMs})
  /\ blockedIPs' =
       Without(blockedIPs,
               {ip \in DOMAIN blockedIPs : now - blockedIPs[ip] > limiters[i].blockDuration})
  /\ due' = [due EXCEPT ![i] = now + limiters[i].windowMs]
  /\ UNCHANGED <<now, limiters, mounted, ovars, exceptLimiter>>

\* a minute passes, once the timers due have fired
Tick ==
  /\ limiters # <<>>
  /\ now < MaxTime
  /\ \A i \in DOMAIN limiters : due[i] > now
  /\ now' = now + 1
  /\ passes' = [k \in DOMAIN passes |-> Recent(passes[k], now + 1)]
  /\ blockSet' = Without(blockSet, {ip \in DOMAIN blockSet : ~InForce(blockSet[ip], now + 1)})
  /\ UNCHANGED <<requestCounts, blockedIPs, limiters, due, mounted, arrivals, handled,
                 exceptLimiter>>

\* an instance has just been created: its timer is due a window from now
Created(ls) ==
  /\ limiters = ls
  /\ due = [i \in DOMAIN ls |-> ls[i].windowMs]
  /\ now = 0
  /\ requestCounts = <<>>
  /\ blockedIPs = <<>>
  /\ arrivals = 0
  /\ handled = <<>>
  /\ passes = <<>>
  /\ blockSet = <<>>

\* the mortgage machines idle
Idle ==
  /\ pc = "idle"
  /\ route = "none"
  /\ body = NoBody
  /\ res = NoRes
  /\ nextCalled = FALSE
  /\ engineRan = FALSE
  /\ locals = NoLocals
  /\ NoCalls
  /\ NoRequest

\* one instance, created with some options and mounted on every path
InitLimiter ==
  /\ Idle
  /\ NoCache
  /\ NoAccounts
  /\ NoFavorites
  /\ NoReviews
  /\ \E options \in LoneOptions : Created(<<options>>)
  /\ mounted = <<[limiter |-> 1, path |-> <<>>]>>

\* the three instances of the module, mounted as server.js mounts them
InitLimiters ==
  /\ Idle
  /\ NoCache
  /\ NoAccounts
  /\ NoFavorites
  /\ NoReviews
  /\ Created(<<authRateLimit, apiRateLimit, publicRateLimit>>)
  /\ mounted = <<[limiter |-> 2, path |-> <<>>],
                 [limiter |-> 1, path |-> <<"api", "users", "login">>],
                 [limiter |-> 1, path |-> <<"api", "users", "register">>]>>

NextLimiter ==
  \/ \E ip \in Clients, e \in Endpoints : Arrive(ip, e)
  \/ \E i \in 1..3 : Cleanup(i)
  \/ Tick

SpecLimiter == InitLimiter /\ [][NextLimiter]_vars

SpecLimiters == InitLimiters /\ [][NextLimiter]_vars


(***************************************************************************)
(* C21: with the layers of server.js, the first 10 requests of an address  *)
(* to /api/users/login within 15 minutes are passed on and the 11th is the *)
(* first one answered with 429.                                             *)
(***************************************************************************)
C21_EleventhRefused ==
  \A ip \in Clients :
    (KeyOf(ip, Login) \in DOMAIN handled /\ now < authRateLimit.windowMs
       /\ handled[KeyOf(ip, Login)].refused)
      => handled[KeyOf(ip, Login)].n = authRateLimit.maxRequests + 1

(***************************************************************************)
(* C22: once an instance has blocked an address, no request of the address *)
(* is passed on until the blockDuration of that instance has elapsed since *)
(* the block was set.                                                       *)
(***************************************************************************)
C22_BlockedForDuration ==
  \A key \in DOMAIN passes :
    key[1] \in DOMAIN blockSet
      => \A j \in DOMAIN passes[key] :
           passes[key][j] > blockSet[key[1]].at => ~InForce(blockSet[key[1]], passes[key][j])

\* the passes of the key in the window of length windowMs that ends now
PassedWithin(key) == {j \in DOMAIN passes[key] : now - passes[key][j] < FirstWindow}

\* the passes of the key since its counter was started
PassedSince(key) ==
  {j \in DOMAIN passes[key] : passes[key][j] >= requestCounts[key].timestamp}

(***************************************************************************)
(* C23 as stated: in any interval of length windowMs a lone instance       *)
(* passes on no more than maxRequests requests of one key.                  *)
(***************************************************************************)
C23_AnyWindow ==
  \A key \in DOMAIN passes : Cardinality(PassedWithin(key)) <= limiters[1].maxRequests

(***************************************************************************)
(* C23 as amended: in the window a key's counter covers, from its          *)
(* timestamp to windowMs later, a lone instance passes on no more than     *)
(* maxRequests requests of the key.                                         *)
(***************************************************************************)
C23_CounterWindow ==
  \A key \in DOMAIN passes :
    key \in DOMAIN requestCounts
      => Cardinality(PassedSince(key)) <= limiters[1].maxRequests

\* a key with a full window behind it and passes in the next one: more than
\* maxRequests within windowMs, no more than maxRequests since the counter
\* was started
C23_Witness ==
  \E key \in DOMAIN passes :
    /\ key \in DOMAIN requestCounts
    /\ Cardinality(PassedWithin(key)) > limiters[1].maxRequests
    /\ PassedSince(key) # {}
    /\ Cardinality(PassedSince(key)) <= limiters[1].maxRequests


(***************************************************************************)
(* The response cache: every instance cacheMiddleware() creates shares the *)
(* one Map of its module.  A request that misses goes on to its handler    *)
(* with res.json overridden, and other requests and the cleanup run before *)
(* the handler answers.  Time is counted in steps of five minutes.          *)
(***************************************************************************)
\* 5 * 60 * 1000 milliseconds
FiveMinutes == 1

\* the last step of the cache's clock
MaxClock == 3

\* the most requests in flight through the cache
MaxPending == 2

propertyDetailCacheMiddleware == [duration |-> 2 * FiveMinutes, key |-> "property"]

categoryCacheMiddleware == [duration |-> 12 * FiveMinutes, key |-> "originalUrl"]

\* the routes that mount an instance, and the instance each mounts
CachedRoutes ==
  {[url |-> <<"api", "properties", "categories">>, instance |-> categoryCacheMiddleware],
   [url |-> <<"api", "properties", "1">>, instance |-> propertyDetailCacheMiddleware]}

\* the requests the middleware is called with: a GET with req.user set or
\* not, and a POST
CacheRequests ==
  {[method |-> k[1], user |-> k[2], url |-> c.url, instance |-> c.instance] :
     k \in {<<"GET", "none">>, <<"GET", "u1">>, <<"POST", "none">>}, c \in CachedRoutes}

\* what a handler answers with: res.status(status).json(data)
HandlerAnswers ==
  {[status |-> 200, data |-> "fetched"], [status |-> 404, data |-> "Property not found"]}

\* key(req): req.originalUrl, or `property:${req.params.id}`
CacheKey(q) ==
  IF q.instance.key = "property" THEN <<"property:", q.url[Len(q.url)]>> ELSE q.url

\* cache.get(cacheKey)
CachedData(key) == IF key \in DOMAIN cache THEN cache[key] ELSE [none |-> TRUE]

\* cachedData && Date.now() < cachedData.expiry
Fresh_UpToExpiry(cachedData, t) == cachedData # [none |-> TRUE] /\ t <= cachedData.expiry

Fresh(cachedData, t) == cachedData # [none |-> TRUE] /\ t < cachedData.expiry

\* Skip cache for non-GET requests, and for authenticated requests
Skips(q) == q.method # "GET" \/ q.user # "none"

\* Don't cache error responses
Cacheable_BelowServerError(status) == ~(status >= 500)

Cacheable(status) == ~(status >= 400)

\* the middleware has run for the request: it answered from the cache, or it
\* called next() with res.json overridden or, for a request it skips, as is
AfterMiddleware(q, cachedData, t) ==
  IF Skips(q)
  THEN q @@ [phase |-> "handler", override |-> FALSE, xcache |-> "none"]
  ELSE IF Fresh(cachedData, t)
       THEN q @@ [phase |-> "sent", override |-> FALSE, xcache |-> "HIT", status |-> 200,
                  data |-> cachedData.data, expiry |-> cachedData.expiry, at |-> t]
       ELSE q @@ [phase |-> "handler", override |-> TRUE, xcache |-> "MISS"]

\* a request reaches the middleware of its route; it is the lowest free
\* slot's
CacheRequest(slot, q) ==
  /\ slot \in 1..MaxPending
  /\ slot \notin DOMAIN pending
  /\ \A lower \in 1..(slot - 1) : lower \in DOMAIN pending
  /\ pending' = MapSet(pending, slot, AfterMiddleware(q, CachedData(CacheKey(q)), clock))
  /\ UNCHANGED <<clock, cache, exceptCache>>

\* the handler of a request answers: res.status(status).json(data), which is
\* the override for a request that missed
HandlerJson(slot, a) ==
  /\ slot \in DOMAIN pending
  /\ pending[slot].phase = "handler"
  /\ cache' = IF pending[slot].override /\ Cacheable(a.status)
              THEN MapSet(cache, CacheKey(pending[slot]),
                          [data |-> a.data, expiry |-> clock + pending[slot].instance.duration])
              ELSE cache
  /\ pending' = [pending EXCEPT ![slot] = [method |-> @.method, user |-> @.user, url |-> @.url,
                                           instance |-> @.instance, phase |-> "sent",
                                           override |-> @.override, xcache |-> @.xcache,
                                           status |-> a.status, data |-> a.data]]
  /\ UNCHANGED <<clock, exceptCache>>

\* the response has gone out
CacheFinish(slot) ==
  /\ slot \in DOMAIN pending
  /\ pending[slot].phase = "sent"
  /\ pending' = Without(pending, {slot})
  /\ UNCHANGED <<clock, cache, exceptCache>>

\* the setInterval callback of an instance: Clean up expired cache entries
CacheCleanup ==
  /\ cache' = Without(cache, {key \in DOMAIN cache : clock > cache[key].expiry})
  /\ cache' # cache
  /\ UNCHANGED <<clock, pending, exceptCache>>

\* five minutes pass
CacheTick ==
  /\ clock < MaxClock
  /\ clock' = clock + 1
  /\ UNCHANGED <<cache, pending, exceptCache>>

InitCache ==
  /\ Idle
  /\ NoLimiter
  /\ NoCache
  /\ NoAccounts
  /\ NoFavorites
  /\ NoReviews

NextCache ==
  \/ \E slot \in 1..MaxPending, q \in CacheRequests : CacheRequest(slot, q)
  \/ \E slot \in 1..MaxPending, a \in HandlerAnswers : HandlerJson(slot, a)
  \/ \E slot \in 1..MaxPending : CacheFinish(slot)
  \/ CacheCleanup
  \/ CacheTick

SpecCache == InitCache /\ [][NextCache]_vars


(***************************************************************************)
(* C24: a request is answered from the cache (X-Cache: HIT) only with an   *)
(* entry whose expiry is strictly after the time of the answer.             *)
(***************************************************************************)
C24_HitBeforeExpiry ==
  \A slot \in DOMAIN pending :
    pending[slot].xcache = "HIT"
      => /\ pending[slot].at < pending[slot].expiry
         /\ pending[slot].status = 200

\* a HIT in the last step before the entry's expiry
C24_Witness ==
  \E slot \in DOMAIN pending :
    /\ pending[slot].xcache = "HIT"
    /\ pending[slot].at = pending[slot].expiry - 1
    /\ pending[slot].at > 0

\* the step writes the entry of the key
Written(key) == key \in DOMAIN cache' /\ (key \notin DOMAIN cache \/ cache'[key] # cache[key])

\* the step is the answer of the handler to a GET without req.user, with a
\* status below 400
CacheableAnswer(slot) ==
  /\ pending[slot].phase = "handler"
  /\ pending[slot].method = "GET"
  /\ pending[slot].user = "none"
  /\ slot \in DOMAIN pending'
  /\ pending'[slot].phase = "sent"
  /\ pending'[slot].status < 400

(***************************************************************************)
(* C25: an entry of the cache is written only by the answer to a GET       *)
(* request without req.user with a status below 400, under the key of that *)
(* request; no other request is answered from the cache.                    *)
(***************************************************************************)
C25_OnlyCacheableStored ==
  [][/\ \A key \in DOMAIN cache' :
          Written(key)
            => \E slot \in DOMAIN pending : CacheKey(pending[slot]) = key /\ CacheableAnswer(slot)
     /\ \A slot \in DOMAIN pending' :
          pending'[slot].xcache = "HIT"
            => pending'[slot].method = "GET" /\ pending'[slot].user = "none"]_vars

\* a GET without req.user that missed was answered 404 and its key has no
\* entry, and a request with req.user set was answered beside an entry of
\* its key
C25_Witness ==
  /\ \E slot \in DOMAIN pending :
       /\ pending[slot].phase = "sent"
       /\ pending[slot].override
       /\ pending[slot].status >= 400
       /\ CacheKey(pending[slot]) \notin DOMAIN cache
  /\ \E slot \in DOMAIN pending :
       /\ pending[slot].phase = "sent"
       /\ pending[slot].user # "none"
       /\ pending[slot].xcache = "none"
       /\ CacheKey(pending[slot]) \in DOMAIN cache


(***************************************************************************)
(* The user accounts: the handlers that write a User's role.  A request is *)
(* handled in one step, with protect and authorize before the handler.     *)
(***************************************************************************)
\* the most User documents ever created
MaxUsers == 3

UserIds == 1..MaxUsers

\* the addresses registered with: one that is taken at the start, one that
\* is not
Emails == {"bob@x.io", "cy@x.io"}

\* ['user', 'agent', 'admin'].includes(role)
Roles == {"user", "agent", "admin"}

\* the bodies posted to /api/users/register: the fields of the schema, with
\* the password left out or not, and a role or none
RegisterBodies ==
  {[name |-> "Someone", email |-> e, password |-> pw, role |-> r] :
     e \in Emails, pw \in {"secret1", "undefined"}, r \in Roles \cup {"undefined"}}

\* userSchemas.register as validate applies it: the required fields must be
\* there; a key the schema does not know is no error
RegisterErrors(b) ==
  {k \in {"name", "email", "password"} : b[k] = "undefined"}

\* User.findOne({ email })
UserExists(email) == \E id \in DOMAIN users : users[id].email = email

\* role: role || 'user'
RoleOrDefault(role) == IF role = "undefined" THEN "user" ELSE role

\* the request is answered without a document written
Refuse(op, caller, status) ==
  /\ userCall' = [op |-> op, caller |-> caller, status |-> status]
  /\ UNCHANGED <<users, agents, nextUserId, granted>>

\* protect: the token names a user that is still there
Authenticated(caller) == caller \in DOMAIN users

\* POST /api/users/register
RegisterUser(b) ==
  /\ users # <<>>
  /\ nextUserId <= MaxUsers
  /\ IF RegisterErrors(b) # {} THEN Refuse("register", 0, 400)
     ELSE IF UserExists(b.email) THEN Refuse("register", 0, 400)
     ELSE /\ users' = MapSet(users, nextUserId,
                             [email |-> b.email, role |-> RoleOrDefault(b.role)])
          /\ agents' = IF RoleOrDefault(b.role) = "agent" THEN agents \cup {nextUserId}
                       ELSE agents
          /\ nextUserId' = nextUserId + 1
          /\ userCall' = [op |-> "register", caller |-> 0, status |-> 201]
          /\ UNCHANGED granted
  /\ UNCHANGED exceptAccounts

\* Prevent changing own role (admin can't demote themselves)
OwnRole(caller, id, role) == id = caller /\ role # "admin"

\* PUT /api/users/:id/role
UpdateUserRole(caller, id, role) ==
  /\ users # <<>>
  /\ IF ~Authenticated(caller) THEN Refuse("role", caller, 401)
     ELSE IF users[caller].role # "admin" THEN Refuse("role", caller, 403)
     ELSE IF role \notin Roles THEN Refuse("role", caller, 400)
     ELSE IF id \notin DOMAIN users THEN Refuse("role", caller, 404)
     ELSE IF OwnRole(caller, id, role) THEN Refuse("role", caller, 400)
     ELSE /\ users' = [users EXCEPT ![id].role = role]
          /\ granted' = IF role = "admin" THEN granted \cup {id} ELSE granted
          /\ userCall' = [op |-> "role", caller |-> caller, status |-> 200]
          /\ UNCHANGED <<agents, nextUserId>>
  /\ UNCHANGED exceptAccounts

\* DELETE /api/users/:id
DeleteUser(caller, id) ==
  /\ users # <<>>
  /\ IF ~Authenticated(caller) THEN Refuse("delete", caller, 401)
     ELSE IF users[caller].role # "admin" THEN Refuse("delete", caller, 403)
     ELSE IF id \notin DOMAIN users THEN Refuse("delete", caller, 404)
     ELSE IF id = caller THEN Refuse("delete", caller, 400)
     ELSE /\ users' = Without(users, {id})
          /\ userCall' = [op |-> "delete", caller |-> caller, status |-> 200]
          /\ UNCHANGED <<agents, nextUserId, granted>>
  /\ UNCHANGED exceptAccounts

\* POST /api/agents/register, with a body agentSchemas.create accepts or not
AgentRegister(caller, valid) ==
  /\ users # <<>>
  /\ IF ~Authenticated(caller) THEN Refuse("agent", caller, 401)
     ELSE IF ~valid THEN Refuse("agent", caller, 400)
     ELSE IF caller \in agents THEN Refuse("agent", caller, 400)
     ELSE /\ agents' = agents \cup {caller}
          /\ users' = [users EXCEPT ![caller].role = "agent"]
          /\ userCall' = [op |-> "agent", caller |-> caller, status |-> 201]
          /\ UNCHANGED <<nextUserId, granted>>
  /\ UNCHANGED exceptAccounts

\* the database at the start: an admin and a user
InitAccounts ==
  /\ Idle
  /\ NoLimiter
  /\ NoCache
  /\ NoFavorites
  /\ NoReviews
  /\ users = <<[email |-> "ann@x.io", role |-> "admin"], [email |-> "bob@x.io", role |-> "user"]>>
  /\ agents = {}
  /\ nextUserId = 3
  /\ granted = {1}
  /\ userCall = NoReply

NextAccounts ==
  \/ \E b \in RegisterBodies : RegisterUser(b)
  \/ \E caller \in UserIds, id \in UserIds, role \in Roles \cup {"owner"} :
       UpdateUserRole(caller, id, role)
  \/ \E caller \in UserIds, id \in UserIds : DeleteUser(caller, id)
  \/ \E caller \in UserIds, valid \in BOOLEAN : AgentRegister(caller, valid)

SpecAccounts == InitAccounts /\ [][NextAccounts]_vars

\* the step is a request of an authenticated admin
OwnRequest(caller) ==
  /\ caller \in DOMAIN users
  /\ users[caller].role = "admin"
  /\ userCall'.status # 0
  /\ userCall'.caller = caller

(***************************************************************************)
(* C26: a request of an authenticated admin leaves that admin's own role   *)
(* 'admin', whatever endpoint it is sent to.                                *)
(***************************************************************************)
C26_AdminStaysAdmin ==
  [][\A caller \in UserIds :
       (OwnRequest(caller) /\ userCall' # userCall)
         => caller \in DOMAIN users' /\ users'[caller].role = "admin"]_vars

(***************************************************************************)
(* C28: a user has the role 'admin' only if the user was admin at the      *)
(* start or an authenticated admin set the role through PUT                *)
(* /api/users/:id/role; POST /api/users/register creates no admin.          *)
(***************************************************************************)
C28_AdminOnlyByGrant ==
  \A id \in DOMAIN users : users[id].role = "admin" => id \in granted


(***************************************************************************)
(* The favorites: POST /api/favorites/:propertyId looks the favorite up    *)
(* and then saves it, and other requests run between the two.  The         *)
(* collection is a bag of documents, under the unique index of the schema. *)
(***************************************************************************)
\* the most POST /api/favorites/:propertyId requests in flight
MaxAdds == 2

FavoriteUsers == {"u1", "u2"}

Properties == {"p1", "p2"}

\* { user: req.user._id, property: propertyId }
FavoriteOf(user, propertyId) == <<user, propertyId>>

\* Favorite.findOne({ user, property })
ExistingFavorite(key) == key \in DOMAIN favorites

\* the collection with one more document of the key
Inserted(docs, key) == MapSet(docs, key, IF key \in DOMAIN docs THEN docs[key] + 1 ELSE 1)

\* favorite.save(): the insert, which the unique index on { user, property }
\* refuses with a duplicate key error
SaveFavorite_NoIndex(docs, key) == [ok |-> TRUE, docs |-> Inserted(docs, key)]

SaveFavorite(docs, key) ==
  IF key \in DOMAIN docs THEN [ok |-> FALSE, docs |-> docs]
  ELSE [ok |-> TRUE, docs |-> Inserted(docs, key)]

\* a POST arrives and the handler looks the favorite up: 400 if it is there
AddFind(slot, user, propertyId) ==
  /\ slot \in 1..MaxAdds
  /\ slot \notin DOMAIN adds
  /\ \A lower \in 1..(slot - 1) : lower \in DOMAIN adds
  /\ adds' = MapSet(adds, slot,
                    IF ExistingFavorite(FavoriteOf(user, propertyId))
                    THEN [key |-> FavoriteOf(user, propertyId), pc |-> "sent", status |-> 400]
                    ELSE [key |-> FavoriteOf(user, propertyId), pc |-> "save", status |-> 0])
  /\ UNCHANGED <<favorites, exceptFavorites>>

\* the save of the request is done, or it threw
AddSaved(slot, saved) ==
  /\ favorites' = saved.docs
  /\ adds' = [adds EXCEPT ![slot].pc = "sent", ![slot].status = IF saved.ok THEN 201 ELSE 500]

\* await favorite.save(), then 201, or 500 from the catch
AddSave(slot) ==
  /\ slot \in DOMAIN adds
  /\ adds[slot].pc = "save"
  /\ AddSaved(slot, SaveFavorite(favorites, adds[slot].key))
  /\ UNCHANGED exceptFavorites

\* the response has gone out
AddFinish(slot) ==
  /\ slot \in DOMAIN adds
  /\ adds[slot].pc = "sent"
  /\ adds' = Without(adds, {slot})
  /\ UNCHANGED <<favorites, exceptFavorites>>

\* DELETE /api/favorites/:propertyId: Favorite.findOneAndDelete
RemoveFavorite(user, propertyId) ==
  /\ ExistingFavorite(FavoriteOf(user, propertyId))
  /\ favorites' = IF favorites[FavoriteOf(user, propertyId)] > 1
                  THEN [favorites EXCEPT ![FavoriteOf(user, propertyId)] = @ - 1]
                  ELSE Without(favorites, {FavoriteOf(user, propertyId)})
  /\ UNCHANGED <<adds, exceptFavorites>>

InitFavorites ==
  /\ Idle
  /\ NoLimiter
  /\ NoCache
  /\ NoAccounts
  /\ NoReviews
  /\ favorites = <<>>
  /\ adds = <<>>

NextFavorites ==
  \/ \E slot \in 1..MaxAdds, user \in FavoriteUsers, propertyId \in Properties :
       AddFind(slot, user, propertyId)
  \/ \E slot \in 1..MaxAdds : AddSave(slot)
  \/ \E slot \in 1..MaxAdds : AddFinish(slot)
  \/ \E user \in FavoriteUsers, propertyId \in Properties : RemoveFavorite(user, propertyId)

SpecFavorites == InitFavorites /\ [][NextFavorites]_vars

\* the step answers the request of the slot
AnsweredNow(slot) ==
  /\ slot \in DOMAIN adds'
  /\ adds'[slot].pc = "sent"
  /\ slot \notin DOMAIN adds \/ adds[slot].pc # "sent"

(***************************************************************************)
(* C27: there is at most one Favorite document for every user and          *)
(* property, also when the look-up and the save of two requests            *)
(* interleave; an add that is answered while the favorite is there is      *)
(* answered with an error and adds no document.                             *)
(***************************************************************************)
C27_AtMostOneFavorite ==
  /\ [](\A key \in DOMAIN favorites : favorites[key] <= 1)
  /\ [][\A slot \in 1..MaxAdds :
          (AnsweredNow(slot) /\ adds'[slot].key \in DOMAIN favorites)
            => adds'[slot].status >= 400 /\ favorites' = favorites]_vars

\* two requests of one user for one property are past their look-up, one
\* is answered 201 and the other's save has thrown
C27_Witness ==
  \E first, second \in DOMAIN adds :
    /\ first # second
    /\ adds[first].key = adds[second].key
    /\ adds[first].status = 201
    /\ adds[second].status = 500
    /\ favorites[adds[first].key] = 1


(***************************************************************************)
(* The reviews of a property: create, update and delete, handled one at a  *)
(* time.  A rating is a whole number, and averageRating, the quotient of   *)
(* two whole numbers, is kept as a fraction in lowest terms.                *)
(***************************************************************************)
\* the most reviews ever created
MaxReviewIds == 3

ReviewIds == 1..MaxReviewIds

\* req.user of the requests: two users and an admin
Reviewers ==
  {[id |-> "u1", role |-> "user"], [id |-> "u2", role |-> "user"],
   [id |-> "root", role |-> "admin"]}

\* the :id of the requests: the property, and one that is not there
ReviewedIds == {"p1", "p404"}

\* rating of req.body: left out, a number, or a string
RatingInputs ==
  {[kind |-> "undefined"], [kind |-> "number", n |-> 0], [kind |-> "number", n |-> 2],
   [kind |-> "number", n |-> 5], [kind |-> "number", n |-> 6], [kind |-> "string", n |-> 3],
   [kind |-> "NaN"]}

\* comment of req.body
CommentInputs == {"undefined", "fine"}

\* !rating: undefined and 0 are falsy, a non-empty string is not
Falsy(rating) == rating.kind = "undefined" \/ (rating.kind = "number" /\ rating.n = 0)

\* rating: { type: Number, required: true, min: 1, max: 5 } of Number(rating)
RatingValid(rating) == rating.kind \in {"number", "string"} /\ rating.n >= 1 /\ rating.n <= 5

RECURSIVE GCD(_, _)
GCD(a, b) == IF b = 0 THEN a ELSE GCD(b, a % b)

\* a / b
Quotient(a, b) == [num |-> a \div GCD(a, b), den |-> b \div GCD(a, b)]

\* reviews.reduce((acc, item) => item.rating + acc, 0)
RECURSIVE RatingSum(_, _)
RatingSum(reviews, n) == IF n = 0 THEN 0 ELSE reviews[n].rating + RatingSum(reviews, n - 1)

\* the sum of the ratings over reviews.length
AverageOf(reviews) == Quotient(RatingSum(reviews, Len(reviews)), Len(reviews))

\* the number 0
ZeroRating == [num |-> 0, den |-> 1]

\* property.reviews.id(reviewId): the index of the review, 0 if none
RECURSIVE ReviewIndex(_, _, _)
ReviewIndex(reviews, reviewId, n) ==
  IF n = 0 THEN 0
  ELSE IF reviews[n].id = reviewId THEN n ELSE ReviewIndex(reviews, reviewId, n - 1)

\* the request is answered and the document is as it was
ReviewRefused(status) ==
  /\ reviewReply' = [status |-> status]
  /\ UNCHANGED <<property, nextReviewId>>

\* property.save() of the document with the review added, and 201
ReviewAdded(reviews) ==
  /\ property' = [reviews |-> reviews, numReviews |-> Len(reviews),
                  averageRating |-> AverageOf(reviews)]
  /\ nextReviewId' = nextReviewId + 1
  /\ reviewReply' = [status |-> 201]

\* POST /api/properties/:id/reviews
CreatePropertyReview(user, id, rating, comment) ==
  /\ property # [none |-> TRUE]
  /\ nextReviewId <= MaxReviewIds
  /\ IF Falsy(rating) \/ comment = "undefined" THEN ReviewRefused(400)
     ELSE IF id # "p1" THEN ReviewRefused(404)
     ELSE IF \E n \in DOMAIN property.reviews : property.reviews[n].user = user.id
          THEN ReviewRefused(400)
     ELSE IF ~RatingValid(rating) THEN ReviewRefused(500)
     ELSE ReviewAdded(Append(property.reviews,
                             [id |-> nextReviewId, user |-> user.id, rating |-> rating.n,
                              comment |-> comment]))
  /\ UNCHANGED exceptReviews

\* if (rating) review.rating = Number(rating); if (comment) review.comment = comment
Updated(review, rating, comment) ==
  [review EXCEPT !.rating = IF Falsy(rating) THEN @ ELSE rating.n,
                 !.comment = IF comment = "undefined" THEN @ ELSE comment]

\* Update property review stats, and save
ReviewUpdated_StaleAverage(reviews) ==
  /\ property' = [property EXCEPT !.reviews = reviews]
  /\ reviewReply' = [status |-> 200]
  /\ UNCHANGED nextReviewId

ReviewUpdated(reviews) ==
  /\ property' = [property EXCEPT !.reviews = reviews, !.averageRating = AverageOf(reviews)]
  /\ reviewReply' = [status |-> 200]
  /\ UNCHANGED nextReviewId

\* the review is found and is the caller's
UpdateFound(n, rating, comment) ==
  IF ~Falsy(rating) /\ ~RatingValid(rating) THEN ReviewRefused(500)
  ELSE ReviewUpdated([property.reviews EXCEPT ![n] = Updated(@, rating, comment)])

\* PUT /api/properties/:id/reviews/:reviewId
UpdatePropertyReview(user, id, reviewId, rating, comment) ==
  /\ property # [none |-> TRUE]
  /\ IF Falsy(rating) /\ comment = "undefined" THEN ReviewRefused(400)
     ELSE IF id # "p1" THEN ReviewRefused(404)
     ELSE IF ReviewIndex(property.reviews, reviewId, Len(property.reviews)) = 0
          THEN ReviewRefused(404)
     ELSE IF property.reviews[ReviewIndex(property.reviews, reviewId,
                                          Len(property.reviews))].user # user.id
          THEN ReviewRefused(403)
     ELSE UpdateFound(ReviewIndex(property.reviews, reviewId, Len(property.reviews)),
                      rating, comment)
  /\ UNCHANGED exceptReviews

\* Remove review, update property review stats, and save
ReviewDeleted(reviews) ==
  /\ property' = [reviews |-> reviews, numReviews |-> Len(reviews),
                  averageRating |-> IF Len(reviews) > 0 THEN AverageOf(reviews)
                                    ELSE ZeroRating]
  /\ reviewReply' = [status |-> 200]
  /\ UNCHANGED nextReviewId

\* DELETE /api/properties/:id/reviews/:reviewId
DeletePropertyReview(user, id, reviewId) ==
  /\ property # [none |-> TRUE]
  /\ IF id # "p1" THEN ReviewRefused(404)
     ELSE IF ReviewIndex(property.reviews, reviewId, Len(property.reviews)) = 0
          THEN ReviewRefused(404)
     ELSE IF /\ property.reviews[ReviewIndex(property.reviews, reviewId,
                                             Len(property.reviews))].user # user.id
             /\ user.role # "admin"
          THEN ReviewRefused(403)
     ELSE ReviewDeleted(SelectSeq(property.reviews, LAMBDA r : r.id # reviewId))
  /\ UNCHANGED exceptReviews

\* the property as created: reviews [], numReviews and averageRating 0
InitReviews ==
  /\ Idle
  /\ NoLimiter
  /\ NoCache
  /\ NoAccounts
  /\ NoFavorites
  /\ property = [reviews |-> <<>>, numReviews |-> 0, averageRating |-> ZeroRating]
  /\ nextReviewId = 1
  /\ reviewReply = NoReply

NextReviews ==
  \/ \E user \in Reviewers, id \in ReviewedIds, rating \in RatingInputs,
        comment \in CommentInputs : CreatePropertyReview(user, id, rating, comment)
  \/ \E user \in Reviewers, id \in ReviewedIds, reviewId \in ReviewIds,
        rating \in RatingInputs, comment \in CommentInputs :
       UpdatePropertyReview(user, id, reviewId, rating, comment)
  \/ \E user \in Reviewers, id \in ReviewedIds, reviewId \in ReviewIds :
       DeletePropertyReview(user, id, reviewId)

SpecReviews == InitReviews /\ [][NextReviews]_vars

\* averageRating is the mean of the ratings stored, 0 when there are none
MeanStored ==
  IF property.reviews = <<>> THEN property.averageRating = ZeroRating
  ELSE property.averageRating.num * Len(property.reviews)
         = RatingSum(property.reviews, Len(property.reviews)) * property.averageRating.den

====
